---- MODULE Spec2Model ----
(***************************************************************************)
(* Segmented file uploader of the storage SDK: Uploader.uploadFile and the *)
(* helpers it is built from (txWithGasAdjustment, SegmentRange,            *)
(* splitTasks, uploadTask, waitForLogEntry).                               *)
(***************************************************************************)
EXTENDS Integers, Sequences, FiniteSets, TLC

\* ------------------------------------------------------------------------
\* Protocol constants (constant.js of the storage SDK)
\* ------------------------------------------------------------------------
DEFAULT_CHUNK_SIZE == 256
DEFAULT_SEGMENT_MAX_CHUNKS == 1024
DEFAULT_SEGMENT_SIZE == DEFAULT_CHUNK_SIZE * DEFAULT_SEGMENT_MAX_CHUNKS

\* ------------------------------------------------------------------------
\* Bounds of the model
\* ------------------------------------------------------------------------
MaxFileSegments == 3       \* files hold 1..MaxFileSegments segments
MaxNodes == 3              \* storage nodes per uploader
MaxTaskSize == 2           \* opts.taskSize in 1..MaxTaskSize
MaxRetriesInput == 3       \* retryOpts.TooManyDataRetries in 0..MaxRetriesInput
MaxStartSegment == 2       \* the ledger places the file at segment 0..MaxStartSegment
MaxGasPriceInput == 12     \* gas prices in 1..MaxGasPriceInput
MaxGasCap == 14            \* retryOpts.MaxGasPrice in 0..MaxGasCap
MaxGasAttempts == 4        \* attempts of one submission recorded by the model
MaxShardCount == 5         \* nextSgmentIndex: numShard in 0..MaxShardCount
MaxFromIndex == 12         \* nextSgmentIndex: startIndex in 0..MaxFromIndex
MaxSplitTotal == 60        \* GetSplitNum: total in 1..MaxSplitTotal (and the claimed limits)
MaxSplitUnit == 20         \* GetSplitNum: unit in 1..MaxSplitUnit (and the claimed limits)
MaxReceiptRetries == 3     \* retryOpts.Retries in 0..MaxReceiptRetries

\* ------------------------------------------------------------------------
\* JavaScript values that travel as errors and results
\* ------------------------------------------------------------------------
\* A value is an Error instance or not (isError); its message is modelled by
\* the set of marker substrings that message.includes() finds in it; data is
\* the kind of its .data field.
MsgMarkers == {"too many data writing", "returned null for upload segments",
               "Invalid params", "timeout", "Failed after"}
DataKinds == {"none", "already exact", "already contains", "too many object", "other"}

NoValue == [tag |-> "null", isError |-> FALSE, msg |-> {}, data |-> "none", attempts |-> 0]
AckValue == [tag |-> "ack", isError |-> FALSE, msg |-> {}, data |-> "none", attempts |-> 0]
ZeroValue == [tag |-> "zero", isError |-> FALSE, msg |-> {}, data |-> "none", attempts |-> 0]

\* The answer of a node that was not asked yet.
NoAnswer == [tag |-> "none", isError |-> FALSE, msg |-> {}, data |-> "none", attempts |-> 0]

Thrown(isErr, msg, data) ==
    [tag |-> "thrown", isError |-> isErr, msg |-> msg, data |-> data, attempts |-> 0]

NewError(msg) == Thrown(TRUE, msg, "none")

\* results[i] instanceof Error
InstanceOfError(v) == v.tag = "thrown" /\ v.isError

\* ------------------------------------------------------------------------
\* utils.js: GetSplitNum, SegmentRange
\* ------------------------------------------------------------------------
GetSplitNumRoundingDown(total, unit) == (total \div unit) + 1

\* Math.floor((total - 1) / unit + 1): the quotient is a double, and for the
\* integers of these ranges its floor is the integer quotient.
GetSplitNum(total, unit) == ((total - 1) \div unit) + 1

SegmentRangeEndFromSize(startChunkIndex, fileSize) ==
    LET totalChunks == GetSplitNum(fileSize, DEFAULT_CHUNK_SIZE)
    IN  <<startChunkIndex \div DEFAULT_SEGMENT_MAX_CHUNKS,
          (totalChunks - 1) \div DEFAULT_SEGMENT_MAX_CHUNKS>>

SegmentRange(startChunkIndex, fileSize) ==
    LET totalChunks == GetSplitNum(fileSize, DEFAULT_CHUNK_SIZE)
        startSegmentIndex == startChunkIndex \div DEFAULT_SEGMENT_MAX_CHUNKS
        endChunkIndex == startChunkIndex + totalChunks - 1
        endSegmentIndex == endChunkIndex \div DEFAULT_SEGMENT_MAX_CHUNKS
    IN  <<startSegmentIndex, endSegmentIndex>>

\* ------------------------------------------------------------------------
\* State
\* ------------------------------------------------------------------------
VARIABLES
    file,          \* the caller's file: size in bytes, whether its tree / submission build
    opts,          \* upload options: skipTx, taskSize, expectedReplica
    retryOpts,     \* retry options: defined, TooManyDataRetries, MaxGasPrice, Interval, Retries
    gasPrice,      \* Uploader.gasPrice (0 = unset)
    shardConfigs,  \* per node: shardId, numShard (what getShardConfigs returns)
    pc,            \* position of uploadFile
    info,          \* the log entry uploadFile holds
    receipt,       \* the receipt uploadFile holds
    ret,           \* what uploadFile returned: txHash, rootHash, err
    tasks,         \* the upload tasks with their run-time state
    poll,          \* waitForLogEntry: position in the node list, rounds, last info
    gas,           \* txWithGasAdjustment: current price, cap, attempts sent, result
    nodeLog,       \* per node, per sequence number: absent / pending / finalized
    nodeSegs,      \* per node: the segment indices it stored
    hist,          \* observation counters (calls made, phases passed)
    calc,          \* a call of a utility function: its arguments and result
    memory,        \* the Memory object: message window, key-value store, last call
    agent,         \* an AgentImplementation contract: balance, spending period, last call
    factory        \* the AgentFactory contract: registry, fee, last call

vars == <<file, opts, retryOpts, gasPrice, shardConfigs, pc, info, receipt, ret,
          tasks, poll, gas, nodeLog, nodeSegs, hist, calc, memory, agent,
          factory>>

inputVars == <<file, opts, retryOpts, gasPrice, shardConfigs>>

\* The uploader's own state, and the state of the other components.
uploaderVars == <<inputVars, pc, info, receipt, ret, tasks, poll, gas, nodeLog,
                  nodeSegs, hist>>

components == <<memory, agent, factory>>

\* No utility call under way.
NoCall == [fn |-> "none", args |-> <<>>, done |-> FALSE, out |-> <<>>]

\* ------------------------------------------------------------------------
\* Memory: the window of ephemeral messages
\* ------------------------------------------------------------------------
MaxEphemeral == 3        \* maxEphemeralMessages ranges over 0..MaxEphemeral
MaxMessagesAdded == 6    \* addMessage calls in one run

\* Array.prototype.slice(start): a negative start counts from the end, and
\* the argument -0 is the integer 0, the start of the array.
Slice(arr, start) ==
    LET len == Len(arr)
        k == IF start < 0
             THEN (IF len + start > 0 THEN len + start ELSE 0)
             ELSE (IF start < len THEN start ELSE len)
    IN  SubSeq(arr, k + 1, len)

\* ------------------------------------------------------------------------
\* Memory: JSON values, JSON.stringify and JSON.parse
\* ------------------------------------------------------------------------
\* A JavaScript value: its type and its literal.
Js(type, lit) == [type |-> type, lit |-> lit]

JsonValues ==
    { Js("null", "null"), Js("boolean", "false"), Js("boolean", "true"),
      Js("number", "0"), Js("number", "7"),
      Js("string", ""), Js("string", "hi"),
      Js("object", "{}"), Js("object", "[]") }

\* a || b: b when a is falsy (null, undefined, false, 0 or ""), else a.
OrElse(a, b) ==
    IF \/ a.type \in {"null", "undefined"}
       \/ a \in {Js("boolean", "false"), Js("number", "0"), Js("string", "")}
    THEN b ELSE a

\* The text JSON.stringify writes for a scalar or an empty container.
StringifyValue(v) ==
    IF v.type = "string" THEN "'" \o v.lit \o "'" ELSE v.lit

\* JSON.parse of such a text.
ParseValue(text) == CHOOSE v \in JsonValues : StringifyValue(v) = text

\* What the store holds under a key: nothing (kind "none"), the text of a
\* value (kind "value"), or the text of remember's memoryItem {key, value,
\* timestamp, type} (kind "item", part_008 lines 62-67), whose Date is
\* written as a string.
StoredText(kind, key, v) ==
    IF kind = "item"
    THEN [kind |-> kind, key |-> StringifyValue(Js("string", key)),
          value |-> StringifyValue(v),
          timestamp |-> StringifyValue(Js("string", "date")),
          type |-> StringifyValue(Js("string", "persistent"))]
    ELSE [kind |-> kind, key |-> "",
          value |-> IF kind = "value" THEN StringifyValue(v) ELSE "",
          timestamp |-> "", type |-> ""]

\* downloadKV (ZGStorageClient.ts lines 117-138) gives null when nothing is
\* stored and the parsed text otherwise; recall (part_008 lines 77-85)
\* returns memoryItem?.value || null, where only an item has a value member.
RecallResult(text) ==
    OrElse(IF text.kind = "item" THEN ParseValue(text.value) ELSE Js("undefined", "undefined"),
           Js("null", "null"))

Keys == {"k1", "k2"}

\* The Memory object before any call; written records, per key, the last
\* remembered value, or that the key was forgotten or never written.
NoMemory ==
    [max |-> 0, messages |-> <<>>, added |-> <<>>, count |-> 0, roles |-> <<>>,
     kv |-> [k \in Keys |-> StoredText("none", "", Js("null", "null"))],
     written |-> [k \in Keys |-> Js("never", "")],
     last |-> [op |-> "none", key |-> "", out |-> Js("undefined", "undefined")]]

\* addMessage (part_008 lines 17-27); a message is its insertion number and
\* roles[msg] is its role.
WithMessage(mem, role) ==
    LET msg == mem.count + 1
        pushed == Append(mem.messages, msg)
    IN  [mem EXCEPT
            !.messages = IF Len(pushed) > mem.max
                         THEN Slice(pushed, 0 - mem.max)
                         ELSE pushed,
            !.added = Append(mem.added, msg),
            !.count = msg,
            !.roles = Append(mem.roles, role),
            !.last = [NoMemory.last EXCEPT !.op = "addMessage"]]

AddMessage ==
    /\ memory.count < MaxMessagesAdded
    /\ memory' = WithMessage(memory, "user")
    /\ UNCHANGED <<uploaderVars, calc, agent, factory>>

\* ------------------------------------------------------------------------
\* Agent: ask, chatWithContext, streamChat (Agent.ts lines 50-157)
\* ------------------------------------------------------------------------
\* What a chat method hands to its caller.
ChatResult(mem, op, ok) ==
    [mem EXCEPT !.last = [op |-> op, key |-> "",
                          out |-> IF ok THEN Js("string", "reply")
                                  ELSE Js("error", "failed")]]

\* Agent.ask (lines 50-75): the user message is stored, then the chat is
\* asked; `ok` tells whether the request answers or throws.
Ask(ok) ==
    /\ memory.count + 2 <= MaxMessagesAdded
    /\ LET asked == WithMessage(memory, "user")
       IN  memory' = ChatResult(IF ok THEN WithMessage(asked, "assistant") ELSE asked,
                                "ask", ok)
    /\ UNCHANGED <<uploaderVars, calc, agent, factory>>

\* Agent.chatWithContext (lines 77-117) and Agent.streamChat (lines 119-157):
\* the request is made with the history and the user message, and both
\* messages are stored after it has answered.
ChatOverHistory(op, ok) ==
    /\ memory.count + 2 <= MaxMessagesAdded
    /\ memory' = ChatResult(IF ok
                            THEN WithMessage(WithMessage(memory, "user"), "assistant")
                            ELSE memory,
                            op, ok)
    /\ UNCHANGED <<uploaderVars, calc, agent, factory>>

ChatWithContext(ok) == ChatOverHistory("chatWithContext", ok)

StreamChat(ok) == ChatOverHistory("streamChat", ok)

\* clearEphemeralMessages (part_008 lines 39-41)
ClearEphemeralMessages ==
    /\ memory.added # <<>>
    /\ memory' = [memory EXCEPT !.messages = <<>>, !.added = <<>>,
                                !.last = [NoMemory.last EXCEPT !.op = "clear"]]
    /\ UNCHANGED <<uploaderVars, calc, agent, factory>>

\* remember (part_008 lines 61-75) over uploadKV (ZGStorageClient.ts 87-115)
Remember(key, v) ==
    /\ memory' = [memory EXCEPT
           !.kv[key] = StoredText("item", key, v),
           !.written[key] = v,
           !.last = [op |-> "remember", key |-> key, out |-> Js("undefined", "undefined")]]
    /\ UNCHANGED <<uploaderVars, calc, agent, factory>>

\* recall (part_008 lines 77-85)
Recall(key) ==
    /\ memory' = [memory EXCEPT
           !.last = [op |-> "recall", key |-> key,
                     out |-> RecallResult(memory.kv[key])]]
    /\ UNCHANGED <<uploaderVars, calc, agent, factory>>

\* forget (part_008 lines 87-94): stores the value null under the key
Forget(key) ==
    /\ memory' = [memory EXCEPT
           !.kv[key] = StoredText("value", key, Js("null", "null")),
           !.written[key] = Js("forgotten", ""),
           !.last = [op |-> "forget", key |-> key, out |-> Js("undefined", "undefined")]]
    /\ UNCHANGED <<uploaderVars, calc, agent, factory>>

\* ------------------------------------------------------------------------
\* AgentImplementation: deposits, withdrawals and the spending limit
\* ------------------------------------------------------------------------
SPENDING_LIMIT_PERCENTAGE == 33
SPENDING_RESET_PERIOD == 86400

MaxDeposits == 10   \* the wei deposited in one run
MaxAmount == 4      \* the largest amount of one spend or withdrawal
MaxClock == 3       \* the clock runs for MaxClock half periods

\* AgentUtils.sol lines 34-36
calculateSpendingLimit(balance, percentage) == (balance * percentage) \div 100

\* AgentUtils.sol lines 41-43, at block.timestamp = now
isSpendingPeriodElapsed(lastReset, period, now) == now >= lastReset + period

\* The contract after initialize (part_009 lines 244-270).  startBalance,
\* spentSum and deposited observe the current period: the balance at its
\* reset, the successful agentSpend amounts and whether wei came in since.
NoAgent ==
    [balance |-> 0, totalSpentInPeriod |-> 0, lastSpendingReset |-> 0,
     totalDeposits |-> 0, paused |-> FALSE, now |-> 0,
     startBalance |-> 0, spentSum |-> 0, deposited |-> FALSE,
     last |-> [op |-> "none", err |-> "none", amount |-> 0, balanceBefore |-> 0,
               spentBefore |-> 0, spentAtCall |-> 0, allowed |-> FALSE]]

\* _resetSpendingIfNeeded (part_009 lines 395-401)
ResetSpendingIfNeeded(a) ==
    IF isSpendingPeriodElapsed(a.lastSpendingReset, SPENDING_RESET_PERIOD, a.now)
    THEN [a EXCEPT !.totalSpentInPeriod = 0, !.lastSpendingReset = a.now,
                   !.startBalance = a.balance, !.spentSum = 0,
                   !.deposited = FALSE]
    ELSE a

\* remainingLimit of agentSpend (part_009 lines 315-317)
RemainingLimitOfBalanceOnly(a) ==
    calculateSpendingLimit(a.balance, SPENDING_LIMIT_PERCENTAGE)

RemainingLimit(a) ==
    LET maxLimit == calculateSpendingLimit(a.balance, SPENDING_LIMIT_PERCENTAGE)
    IN  IF maxLimit > a.totalSpentInPeriod
        THEN maxLimit - a.totalSpentInPeriod ELSE 0

\* deposit (part_009 lines 280-288); a reverted call returns the value sent.
Deposit(amount) ==
    /\ agent.totalDeposits + amount <= MaxDeposits
    /\ LET err == IF amount > 0 THEN "none" ELSE "No value"
           call == [NoAgent.last EXCEPT !.op = "deposit", !.err = err,
                                       !.amount = amount]
       IN  agent' = IF err = "none"
                    THEN [agent EXCEPT !.balance = @ + amount,
                                       !.totalDeposits = @ + amount,
                                       !.deposited = TRUE, !.last = call]
                    ELSE [agent EXCEPT !.last = call]
    /\ UNCHANGED <<uploaderVars, calc, memory, factory>>

\* adminWithdraw (part_009 lines 290-303)
AdminWithdraw(isOwner, recipientOk, amount, transferOk) ==
    /\ LET err == CASE ~isOwner -> "OwnableUnauthorizedAccount"
                    [] ~recipientOk -> "InvalidAddress"
                    [] amount = 0 -> "Invalid amount"
                    [] amount > agent.balance -> "InsufficientBalance"
                    [] ~transferOk -> "Transfer failed"
                    [] OTHER -> "none"
           call == [op |-> "adminWithdraw", err |-> err, amount |-> amount,
                    balanceBefore |-> agent.balance,
                    spentBefore |-> agent.totalSpentInPeriod,
                    spentAtCall |-> agent.totalSpentInPeriod,
                    allowed |-> isOwner /\ recipientOk /\ transferOk]
       IN  agent' = IF err = "none"
                    THEN [agent EXCEPT !.balance = @ - amount, !.last = call]
                    ELSE [agent EXCEPT !.last = call]
    /\ UNCHANGED <<uploaderVars, calc, memory, factory>>

\* agentSpend (part_009 lines 305-325); a revert undoes the reset too.
AgentSpend(hasRole, recipientOk, amount, transferOk) ==
    /\ LET r == ResetSpendingIfNeeded(agent)
           err == CASE ~hasRole -> "AccessControlUnauthorizedAccount"
                    [] agent.paused -> "EnforcedPause"
                    [] ~recipientOk -> "InvalidAddress"
                    [] amount = 0 -> "Invalid amount"
                    [] amount > RemainingLimit(r) -> "ExceedsSpendingLimit"
                    [] amount > r.balance -> "InsufficientBalance"
                    [] ~transferOk -> "Transfer failed"
                    [] OTHER -> "none"
           call == [op |-> "agentSpend", err |-> err, amount |-> amount,
                    balanceBefore |-> agent.balance,
                    spentBefore |-> agent.totalSpentInPeriod,
                    spentAtCall |-> r.totalSpentInPeriod,
                    allowed |-> hasRole /\ ~agent.paused /\ recipientOk]
       IN  agent' = IF err = "none"
                    THEN [r EXCEPT !.totalSpentInPeriod = @ + amount,
                                   !.balance = @ - amount,
                                   !.spentSum = @ + amount, !.last = call]
                    ELSE [agent EXCEPT !.last = call]
    /\ UNCHANGED <<uploaderVars, calc, memory, factory>>

\* pause / unpause by the owner (part_009 lines 392-393)
SetAgentPaused(p) ==
    /\ agent.paused # p
    /\ agent' = [agent EXCEPT !.paused = p,
                              !.last = [NoAgent.last EXCEPT !.op = "pause"]]
    /\ UNCHANGED <<uploaderVars, calc, memory, factory>>

\* block.timestamp advances by half a period.
AdvanceClock ==
    /\ agent.now + SPENDING_RESET_PERIOD \div 2 <= MaxClock * (SPENDING_RESET_PERIOD \div 2)
    /\ agent' = [agent EXCEPT !.now = @ + SPENDING_RESET_PERIOD \div 2,
                              !.last = [NoAgent.last EXCEPT !.op = "time"]]
    /\ UNCHANGED <<uploaderVars, calc, memory, factory>>

\* ------------------------------------------------------------------------
\* AgentFactory: deployments and the registry
\* ------------------------------------------------------------------------
MaxAgents == 3    \* successful deployments in one run
MaxValue == 2     \* the largest msg.value of a deployment

\* Names as their text; "long" stands for a name of 51 bytes.
AgentNames == {"", "a", "b", "long"}

NameLength(name) == CASE name = "" -> 0 [] name = "long" -> 51 [] OTHER -> 1

Owners == {"u1", "u2"}

\* The factory after its constructor (part_009 lines 47-54), fee 0.  Address
\* 0 is address(0); clones get the addresses 1, 2, ...
NoFactory ==
    [totalAgentsDeployed |-> 0, deploymentFee |-> 0, paused |-> FALSE,
     balance |-> 0, clones |-> 0,
     isValidAgent |-> {},
     agentsByOwner |-> [o \in Owners |-> <<>>],
     agentByName |-> [n \in AgentNames |-> 0],
     agentInfo |-> [a \in 1..(MaxAgents + 1) |-> [owner |-> "", name |-> ""]],
     funding |-> [a \in 1..(MaxAgents + 1) |-> 0],
     deployed |-> <<>>,
     last |-> [op |-> "none", err |-> "none", name |-> "", taken |-> FALSE,
               proper |-> FALSE, before |-> <<>>]]

IdleComponents == memory = NoMemory /\ agent = NoAgent /\ factory = NoFactory

\* The contract's storage and balance, the fields a revert restores.
Registry(f) ==
    <<f.totalAgentsDeployed, f.isValidAgent, f.agentsByOwner, f.agentByName,
      f.agentInfo, f.funding, f.balance, f.clones>>

\* AgentUtils.validateAgentInput (AgentUtils.sol lines 18-22)
validateAgentInput(name, descriptionLength) ==
    CASE NameLength(name) = 0 -> "NameEmpty"
      [] NameLength(name) > 50 -> "NameTooLong"
      [] descriptionLength > 500 -> "DescriptionTooLong"
      [] OTHER -> "none"

\* agentByName[name] != address(0) (part_009 lines 62 and 108)
NameTakenNever(f, name) == FALSE

NameTaken(f, name) == f.agentByName[name] # 0

\* clone, initialize and _updateRegistry (part_009 lines 64-77, 110-137)
UpdateRegistry(f, agentAddress, owner, name) ==
    [f EXCEPT !.clones = agentAddress,
              !.totalAgentsDeployed = @ + 1,
              !.isValidAgent = @ \cup {agentAddress},
              !.agentsByOwner[owner] = Append(@, agentAddress),
              !.agentByName[name] = agentAddress,
              !.agentInfo[agentAddress] = [owner |-> owner, name |-> name],
              !.deployed = Append(@, [agent |-> agentAddress, owner |-> owner,
                                      name |-> name])]

\* deployAgent (part_009 lines 56-82) with initialFunding = 0, and
\* deployAgentWithFunding over _deployInternal (lines 84-124): the order of
\* the checks is the same, the fee check counts the funding.
Deploy(op, caller, name, descriptionLength, initialFunding, value, refundOk) ==
    /\ op = "deployAgent" => initialFunding = 0
    /\ LET required == factory.deploymentFee + initialFunding
           input == validateAgentInput(name, descriptionLength)
           err == CASE factory.paused -> "EnforcedPause"
                    [] value < required -> "InvalidFee"
                    [] input # "none" -> input
                    [] NameTaken(factory, name) -> "NameTaken"
                    [] value > required /\ ~refundOk -> "Transfer failed"
                    [] OTHER -> "none"
           call == [op |-> op, err |-> err, name |-> name,
                    taken |-> factory.agentByName[name] # 0,
                    proper |-> /\ ~factory.paused
                               /\ value >= required
                               /\ descriptionLength <= 500,
                    before |-> Registry(factory)]
           agentAddress == factory.clones + 1
           after == UpdateRegistry(factory, agentAddress, caller, name)
       IN  /\ err = "none" => factory.clones < MaxAgents
           /\ factory' =
                 IF err = "none"
                 THEN [after EXCEPT !.balance = @ + factory.deploymentFee,
                                    !.funding[agentAddress] = initialFunding,
                                    !.last = call]
                 ELSE [factory EXCEPT !.last = call]
    /\ UNCHANGED <<uploaderVars, calc, memory, agent>>

\* pauseDeployments / unpauseDeployments by the owner (part_009 lines 157-158)
SetFactoryPaused(p) ==
    /\ factory.paused # p
    /\ factory' = [factory EXCEPT !.paused = p,
                                  !.last = [NoFactory.last EXCEPT !.op = "pause"]]
    /\ UNCHANGED <<uploaderVars, calc, memory, agent>>

\* ------------------------------------------------------------------------
\* utils.js: txWithGasAdjustment
\* ------------------------------------------------------------------------
Unset == 0 - 1

\* An error is a timeout for the escalation loop (utils.js line 74).
IsTimeoutError(e) == InstanceOfError(e) /\ "timeout" \in e.msg

\* What one attempt (send, wait, waitForReceipt) can end in; waited tells
\* whether the attempt reached waitForReceipt (line 66).
ReceiptOutcome ==
    [kind |-> "receipt", hasSubmitLog |-> TRUE, thrown |-> NoValue, waited |-> TRUE]
ReceiptNoLogOutcome ==
    [kind |-> "receipt", hasSubmitLog |-> FALSE, thrown |-> NoValue, waited |-> TRUE]
\* Line 64: resp.wait() returned null.
TxNullOutcome ==
    [kind |-> "throw", hasSubmitLog |-> FALSE, thrown |-> NewError({"timeout"}),
     waited |-> FALSE]
\* Line 68: waitForReceipt returned null.
ReceiptTimeoutOutcome ==
    [kind |-> "throw", hasSubmitLog |-> FALSE, thrown |-> NewError({"timeout"}),
     waited |-> TRUE]
\* send or resp.wait() threw e.
ThrowOutcome(e) ==
    [kind |-> "throw", hasSubmitLog |-> FALSE, thrown |-> e, waited |-> FALSE]

GasOutcomes ==
    {ReceiptOutcome, ReceiptNoLogOutcome, TxNullOutcome, ReceiptTimeoutOutcome,
     ThrowOutcome(NewError({})),                       \* e.g. insufficient funds
     ThrowOutcome(Thrown(FALSE, {"timeout"}, "none"))} \* a thrown non-Error value

NoReceipt == [present |-> FALSE, hasSubmitLog |-> FALSE]

\* utils.js lines 90, 93 and 96: the defaults of waitForReceipt.
DefaultReceiptRetries == 10
DefaultReceiptInterval == 5

\* Lines 89-97: the retry options object after waitForReceipt has looked at
\* it. An undefined argument is replaced in the local variable only; a
\* defined one is the caller's object, and the assignments write to it.
OptsAfterWait(ro) ==
    IF ~ro.defined THEN ro
    ELSE [ro EXCEPT !.Retries = IF @ = Unset \/ @ = 0 THEN DefaultReceiptRetries ELSE @,
                    !.Interval = IF @ = Unset \/ @ = 0 THEN DefaultReceiptInterval ELSE @]

\* Lines 89-94: the number of tries waitForReceipt allows.
ReceiptRetries(ro) ==
    IF ~ro.defined THEN DefaultReceiptRetries ELSE OptsAfterWait(ro).Retries

\* The loop of waitForReceipt: tries left behind (nTries), calls of
\* getTransactionReceipt, the last answer.
WaitIdle == [retries |-> 0, nTries |-> 0, calls |-> 0, last |-> "none"]

GasIdle ==
    [pc |-> "idle", cur |-> 0, max |-> 0, err |-> NoValue, sent |-> <<>>,
     outcomes |-> <<>>, tick |-> 0, retReceipt |-> NoReceipt, retErr |-> NoValue,
     wait |-> WaitIdle]

\* Lines 49-54: the state at the head of the while loop.
GasStart(p0, ro) ==
    [pc |-> "loop", cur |-> p0,
     max |-> IF ro.defined /\ ro.MaxGasPrice > 0 THEN ro.MaxGasPrice ELSE p0,
     err |-> NoValue, sent |-> <<>>, outcomes |-> <<>>, tick |-> 0,
     retReceipt |-> NoReceipt, retErr |-> NoValue, wait |-> WaitIdle]

\* Line 76-77: the next gas price after a timeout.
NextGasPrice(cur) == (11 * cur) \div 10

\* Lines 55-83: one turn of the loop body with the ledger answering `o`.
\* sent and outcomes record the first MaxGasAttempts attempts; tick tells two
\* successive attempts apart.
GasAttemptResult(g, o) ==
    LET seen == Len(g.sent) < MaxGasAttempts
        g1 == [g EXCEPT !.sent = IF seen THEN Append(g.sent, g.cur) ELSE g.sent,
                        !.outcomes = IF seen THEN Append(g.outcomes, o) ELSE g.outcomes,
                        !.tick = 1 - g.tick]
    IN  IF o.kind = "receipt"
        THEN [g1 EXCEPT !.pc = "returned",
                        !.retReceipt = [present |-> TRUE, hasSubmitLog |-> o.hasSubmitLog]]
        ELSE IF IsTimeoutError(o.thrown)
             THEN [g1 EXCEPT !.err = o.thrown, !.cur = NextGasPrice(g.cur)]
             ELSE [g1 EXCEPT !.pc = "returned", !.err = o.thrown, !.retErr = o.thrown]

\* The whole turn at once; an attempt that reaches waitForReceipt hands it
\* the caller's retry options (line 66).
GasAttempt(o) ==
    /\ gas.pc = "loop"
    /\ gas.cur <= gas.max
    /\ gas' = GasAttemptResult(gas, o)
    /\ retryOpts' = IF o.waited THEN OptsAfterWait(retryOpts) ELSE retryOpts
    /\ hist' = [hist EXCEPT !.ledgerCalls = IF @ <= MaxGasAttempts THEN @ + 1 ELSE @]
    /\ UNCHANGED <<file, opts, gasPrice, shardConfigs, calc, components, pc, info, receipt, ret, tasks, poll, nodeLog, nodeSegs>>

\* Lines 57-66 and 88-98: the transaction is sent and mined, waitForReceipt
\* is entered and settles its options.
BeginWait ==
    /\ gas.pc = "loop"
    /\ gas.cur <= gas.max
    /\ gas' = [gas EXCEPT !.pc = "waiting",
                          !.wait = [WaitIdle EXCEPT !.retries = ReceiptRetries(retryOpts)]]
    /\ retryOpts' = OptsAfterWait(retryOpts)
    /\ hist' = [hist EXCEPT !.ledgerCalls = IF @ <= MaxGasAttempts THEN @ + 1 ELSE @]
    /\ UNCHANGED <<file, opts, gasPrice, shardConfigs, calc, components, pc, info, receipt, ret, tasks, poll, nodeLog, nodeSegs>>

ReceiptAnswers == {"null", "status 0", "status 1", "throws"}

AcceptsAnyReceipt(answer) == answer \in {"status 0", "status 1"}

\* Line 101: receipt !== null && receipt.status == 1.
AcceptsReceipt(answer) == answer = "status 1"

\* Lines 98-107 and 67-83: one turn of the loop of waitForReceipt, the
\* provider answering getTransactionReceipt with `answer`; the turn that
\* ends the wait ends the attempt too.
ReceiptPoll(answer) ==
    /\ gas.pc = "waiting"
    /\ gas.wait.nTries < gas.wait.retries
    /\ LET w == [gas.wait EXCEPT !.calls = @ + 1, !.last = answer]
           g == [gas EXCEPT !.pc = "loop", !.wait = w]
       IN  gas' = IF answer = "throws"
                  THEN GasAttemptResult(g, [ThrowOutcome(NewError({})) EXCEPT !.waited = TRUE])
                  ELSE IF AcceptsReceipt(answer)
                  THEN GasAttemptResult(g, ReceiptOutcome)
                  ELSE IF w.nTries + 1 < w.retries
                  THEN [gas EXCEPT !.wait = [w EXCEPT !.nTries = @ + 1]]
                  ELSE GasAttemptResult([g EXCEPT !.wait.nTries = @ + 1],
                                        ReceiptTimeoutOutcome)
    /\ UNCHANGED <<inputVars, calc, components, pc, info, receipt, ret, tasks, poll, nodeLog, nodeSegs, hist>>

\* Line 85: the loop condition fails.
GasExit ==
    /\ gas.pc = "loop"
    /\ gas.cur > gas.max
    /\ gas' = [gas EXCEPT !.pc = "returned", !.retErr = gas.err]
    /\ UNCHANGED <<inputVars, calc, components, pc, info, receipt, ret, tasks, poll, nodeLog, nodeSegs, hist>>

\* ------------------------------------------------------------------------
\* The file abstraction (ZgFile): size, chunk count, segment count
\* ------------------------------------------------------------------------
NumChunks(f) == GetSplitNum(f.size, DEFAULT_CHUNK_SIZE)

NumSegments(f) == GetSplitNum(NumChunks(f), DEFAULT_SEGMENT_MAX_CHUNKS)

\* Bytes one iterator step yields at byte offset `off`: up to a whole segment
\* of the chunk-padded file.
ReadLength(f, off) ==
    LET left == NumChunks(f) * DEFAULT_CHUNK_SIZE - off
    IN  IF left < DEFAULT_SEGMENT_SIZE THEN left ELSE DEFAULT_SEGMENT_SIZE

\* The elements of a sequence.
SegmentSet(segments) == {segments[k] : k \in 1..Len(segments)}

\* ------------------------------------------------------------------------
\* Uploader.getSegment (lines 340-368)
\* ------------------------------------------------------------------------
\* The triple [allDataUploaded, segWithProof, err]; seg.present = FALSE is null.
NoSegment == [present |-> FALSE, index |-> 0, dataLen |-> 0]

GetSegment(f, segIndex) ==
    LET numChunks == NumChunks(f)
        startIndex == segIndex * DEFAULT_SEGMENT_MAX_CHUNKS
        len == ReadLength(f, segIndex * DEFAULT_SEGMENT_SIZE)
        last == startIndex * DEFAULT_CHUNK_SIZE + len >= numChunks * DEFAULT_CHUNK_SIZE
    IN  IF startIndex >= numChunks
        THEN [allDataUploaded |-> TRUE, seg |-> NoSegment, err |-> NoValue]
        ELSE IF f.readFail # "none" /\ f.failAt = segIndex
        THEN [allDataUploaded |-> FALSE, seg |-> NoSegment,
              err |-> IF f.readFail = "error" THEN NewError({}) ELSE NoValue]
        ELSE [allDataUploaded |-> last,
              seg |-> [present |-> TRUE, index |-> segIndex,
                       dataLen |-> IF last
                                   THEN DEFAULT_CHUNK_SIZE * (numChunks - startIndex)
                                   ELSE len],
              err |-> NoValue]

\* ------------------------------------------------------------------------
\* Uploader.uploadTask, the read loop (lines 370-384)
\* ------------------------------------------------------------------------
ReadLoopFirstSegmentOnly(f, task, i, segIndex, segments) ==
    [err |-> NoValue, failed |-> FALSE, segments |-> <<task.segIndex>>]

\* State of the loop after i iterations: the batch so far, or the error returned.
RECURSIVE ReadLoop(_, _, _, _, _)
ReadLoop(f, task, i, segIndex, segments) ==
    IF i >= task.taskSize
    THEN [err |-> NoValue, failed |-> FALSE, segments |-> segments]
    ELSE LET r == GetSegment(f, segIndex)
             segs == IF r.seg.present THEN Append(segments, r.seg.index) ELSE segments
         IN  IF r.err.tag # "null"
             THEN [err |-> r.err, failed |-> TRUE, segments |-> segments]
             ELSE IF r.allDataUploaded
             THEN [err |-> NoValue, failed |-> FALSE, segments |-> segs]
             ELSE ReadLoop(f, task, i + 1, segIndex + task.numShard, segs)

\* ------------------------------------------------------------------------
\* Uploader.isAlreadyUploadedError, isRetryableError (lines 436-447)
\* ------------------------------------------------------------------------
DataIncludesAlready(d) == d \in {"already exact", "already contains"}

isAlreadyUploadedError(e) ==
    /\ InstanceOfError(e)
    /\ \/ DataIncludesAlready(e.data)
       \/ ("Invalid params" \in e.msg /\ e.data = "already exact")

isRetryableError(e) ==
    /\ InstanceOfError(e)
    /\ \/ "too many data writing" \in e.msg
       \/ "returned null for upload segments" \in e.msg
       \/ e.data = "too many object"

\* Line 386: retryOpts?.TooManyDataRetries ?? 3
DefaultMaxRetries == 3

MaxRetriesOf(ro) ==
    IF ro.defined /\ ro.TooManyDataRetries # Unset THEN ro.TooManyDataRetries
    ELSE DefaultMaxRetries

\* Line 408: retryOpts?.Interval ?? 3
DefaultInterval == 3

IntervalOf(ro) ==
    IF ro.defined /\ ro.Interval # Unset THEN ro.Interval ELSE DefaultInterval

\* What a node can answer to uploadSegmentsByTxSeq: an acknowledgement, null,
\* or a thrown value.
UploadResponses ==
    {AckValue, NoValue,
     NewError({"too many data writing"}),
     Thrown(TRUE, {}, "too many object"),
     Thrown(TRUE, {"Invalid params"}, "already exact"),
     Thrown(TRUE, {"too many data writing"}, "already contains"),
     NewError({}),
     Thrown(TRUE, {"Invalid params"}, "other"),
     Thrown(FALSE, {"too many data writing"}, "none"),
     Thrown(FALSE, {}, "already exact")}

\* The value the catch block sees for an answer (lines 391-398).
CaughtError(resp) ==
    IF resp.tag = "null" THEN NewError({"returned null for upload segments"}) ELSE resp

ClassifyRetryableFirst(error) ==
    IF isRetryableError(error) THEN "retryable"
    ELSE IF isAlreadyUploadedError(error) THEN "already"
    ELSE "fatal"

ClassifyAllRetryable(error) ==
    IF isAlreadyUploadedError(error) THEN "already" ELSE "retryable"

\* Lines 401-428: the order in which the catch block classifies an error.
Classify(error) ==
    IF isAlreadyUploadedError(error) THEN "already"
    ELSE IF isRetryableError(error) THEN "retryable"
    ELSE "fatal"

CanRetryOnLastAttempt(attempt, maxRetries) == attempt < maxRetries

WaitTimeConstant(ro, attempt) == IntervalOf(ro)

\* Line 408: the seconds slept after the failed attempt number attempt + 1.
WaitTime(ro, attempt) == IntervalOf(ro) * (attempt + 1)

\* Line 407: whether a retryable error is followed by another attempt.
CanRetry(attempt, maxRetries) == attempt < maxRetries - 1

\* Lines 389-430: one turn of the retry loop of task t, the node answering resp;
\* sent records the arguments of each uploadSegmentsByTxSeq call (line 391).
UploadTurn(t, resp, ro) ==
    LET maxRetries == MaxRetriesOf(ro)
        t1 == [t EXCEPT !.calls = @ + 1, !.lastResp = resp,
                        !.sent = Append(@, [node |-> t.clientIndex,
                                            segments |-> t.segments,
                                            txSeq |-> t.txSeq])]
        error == CaughtError(resp)
        class == Classify(error)
    IN  IF resp.tag = "ack"
        THEN [t1 EXCEPT !.pc = "done", !.result = resp]
        ELSE IF class = "already"
        THEN [t1 EXCEPT !.pc = "done", !.lastError = error, !.result = ZeroValue]
        ELSE IF class = "retryable"
        THEN IF CanRetry(t.attempt, maxRetries)
             THEN [t1 EXCEPT !.pc = "sleep", !.lastError = error,
                             !.sleeps = Append(@, WaitTime(ro, t.attempt))]
             ELSE [t1 EXCEPT !.pc = "done", !.lastError = error,
                             !.result = [NewError({"Failed after"} \cup error.msg)
                                            EXCEPT !.attempts = maxRetries]]
        ELSE [t1 EXCEPT !.pc = "done", !.lastError = error, !.result = error]

\* Lines 411-413 and 389, 431-434: the sleep ends, the attempt is counted and
\* the loop condition is evaluated again.
AfterSleep(t, ro) ==
    IF t.attempt + 1 < MaxRetriesOf(ro)
    THEN [t EXCEPT !.pc = "upload", !.attempt = @ + 1]
    ELSE [t EXCEPT !.pc = "done", !.attempt = @ + 1, !.result = t.lastError]

\* ------------------------------------------------------------------------
\* Storage nodes and their log entries
\* ------------------------------------------------------------------------
Nodes == 1..Len(shardConfigs)

\* Sequence numbers: an entry the ledger held before this call, and the one
\* the ledger assigns to this call's submission.
OldSeq == 1
NewSeq == 2
Seqs == {OldSeq, NewSeq}

NoInfo == [present |-> FALSE, seq |-> 0, startEntryIndex |-> 0, size |-> 0,
           finalized |-> FALSE]

\* getFileInfoByTxSeq on node n.
EntryBySeq(n, seq) ==
    IF nodeLog[n][seq] = "absent" THEN NoInfo
    ELSE [present |-> TRUE, seq |-> seq, startEntryIndex |-> file.startEntryIndex,
          size |-> file.size, finalized |-> nodeLog[n][seq] = "finalized"]

\* getFileInfo(rootHash) on node n: the first entry of that root it knows.
EntryByRoot(n) ==
    IF nodeLog[n][OldSeq] # "absent" THEN EntryBySeq(n, OldSeq)
    ELSE EntryBySeq(n, NewSeq)

\* The segments (relative to the file's first segment) node n has to store.
ShardSegments(n) ==
    LET start == SegmentRange(file.startEntryIndex, file.size)[1]
    IN  {j \in 0..(NumSegments(file) - 1) :
            (start + j) % shardConfigs[n].numShard = shardConfigs[n].shardId}

\* ------------------------------------------------------------------------
\* checkReplica (common/index.js): every shard is held by enough nodes
\* ------------------------------------------------------------------------
RECURSIVE ProductNumShard(_, _)
ProductNumShard(cfgs, i) ==
    IF i > Len(cfgs) THEN 1 ELSE cfgs[i].numShard * ProductNumShard(cfgs, i + 1)

checkReplica(cfgs, expectedReplica) ==
    /\ Len(cfgs) > 0
    /\ \A x \in 0..(ProductNumShard(cfgs, 1) - 1) :
          Cardinality({i \in 1..Len(cfgs) : x % cfgs[i].numShard = cfgs[i].shardId})
             >= expectedReplica

\* ------------------------------------------------------------------------
\* Uploader.nextSgmentIndex (lines 280-288)
\* ------------------------------------------------------------------------
nextSgmentIndexRoundingDown(config, startIndex) ==
    IF config.numShard < 2 THEN startIndex
    ELSE ((startIndex - config.shardId) \div config.numShard) * config.numShard
             + config.shardId

nextSgmentIndex(config, startIndex) ==
    IF config.numShard < 2 THEN startIndex
    ELSE ((startIndex + config.numShard - 1 - config.shardId) \div config.numShard)
             * config.numShard + config.shardId

\* ------------------------------------------------------------------------
\* Uploader.splitTasks (lines 289-339)
\* ------------------------------------------------------------------------
NewTask(clientIndex, taskSize, segIndex, numShard, txSeq) ==
    [clientIndex |-> clientIndex, taskSize |-> taskSize, segIndex |-> segIndex,
     numShard |-> numShard, txSeq |-> txSeq,
     pc |-> "read", segments |-> <<>>, attempt |-> 0, calls |-> 0, sleeps |-> <<>>,
     sent |-> <<>>, lastResp |-> NoAnswer, lastError |-> NoValue, result |-> NoValue]

NodeTasksSteppingOneSegment(clientIndex, cfg, startSegmentIndex, endSegmentIndex, taskSize, txSeq) ==
    LET first == nextSgmentIndex(cfg, startSegmentIndex)
        step == cfg.numShard
        count == IF first > endSegmentIndex THEN 0
                 ELSE ((endSegmentIndex - first) \div step) + 1
    IN  [k \in 1..count |->
            NewTask(clientIndex, taskSize, first + (k - 1) * step - startSegmentIndex,
                    cfg.numShard, txSeq)]

\* Lines 309-320: the tasks of one node.
NodeTasks(clientIndex, cfg, startSegmentIndex, endSegmentIndex, taskSize, txSeq) ==
    LET first == nextSgmentIndex(cfg, startSegmentIndex)
        step == cfg.numShard * taskSize
        count == IF first > endSegmentIndex THEN 0
                 ELSE ((endSegmentIndex - first) \div step) + 1
    IN  [k \in 1..count |->
            NewTask(clientIndex, taskSize, first + (k - 1) * step - startSegmentIndex,
                    cfg.numShard, txSeq)]

\* Lines 302-324: the non-empty task lists of the nodes that are not finalized.
RECURSIVE CollectNodeTasks(_, _, _, _, _, _, _)
CollectNodeTasks(cfgs, finalizedAt, i, s, e, taskSize, txSeq) ==
    IF i > Len(cfgs) THEN <<>>
    ELSE LET rest == CollectNodeTasks(cfgs, finalizedAt, i + 1, s, e, taskSize, txSeq)
             mine == NodeTasks(i, cfgs[i], s, e, taskSize, txSeq)
         IN  IF i \in finalizedAt \/ Len(mine) = 0 THEN rest ELSE <<mine>> \o rest

\* Line 331: uploadTasks.sort((a, b) => a.length - b.length), a stable sort.
RECURSIVE InsertByLength(_, _)
InsertByLength(sorted, x) ==
    IF sorted = <<>> THEN <<x>>
    ELSE IF Len(x) < Len(Head(sorted)) THEN <<x>> \o sorted
    ELSE <<Head(sorted)>> \o InsertByLength(Tail(sorted), x)

RECURSIVE SortByLengthFrom(_, _, _)
SortByLengthFrom(lists, i, acc) ==
    IF i > Len(lists) THEN acc
    ELSE SortByLengthFrom(lists, i + 1, InsertByLength(acc, lists[i]))

SortByLength(lists) == SortByLengthFrom(lists, 1, <<>>)

\* Lines 333-335: the inner loop for one taskIndex (0-based), from list i on.
RECURSIVE InterleaveRow(_, _, _)
InterleaveRow(lists, taskIndex, i) ==
    IF i > Len(lists) \/ taskIndex >= Len(lists[i]) THEN <<>>
    ELSE <<lists[i][taskIndex + 1]>> \o InterleaveRow(lists, taskIndex, i + 1)

\* Lines 332-336: the outer loop, bounded by the length of the first list.
RECURSIVE InterleaveFrom(_, _)
InterleaveFrom(lists, taskIndex) ==
    IF taskIndex >= Len(lists[1]) THEN <<>>
    ELSE InterleaveRow(lists, taskIndex, 1) \o InterleaveFrom(lists, taskIndex + 1)

Interleave(lists) ==
    IF Len(lists) = 0 THEN <<>> ELSE InterleaveFrom(SortByLength(lists), 0)

\* The flat task list for a log entry, given the nodes that report the file
\* finalized (line 304-308).
SplitTasks(entry, cfgs, finalizedAt, taskSize) ==
    LET range == SegmentRange(entry.startEntryIndex, entry.size)
    IN  Interleave(CollectNodeTasks(cfgs, finalizedAt, 1, range[1], range[2],
                                    taskSize, entry.seq))

\* ------------------------------------------------------------------------
\* Uploader.uploadFile (lines 76-139), step by step
\* ------------------------------------------------------------------------
NotReturned == [returned |-> FALSE, txHash |-> "", rootHash |-> "", err |-> NoValue]

Return(txHash, rootHash, err) ==
    [returned |-> TRUE, txHash |-> txHash, rootHash |-> rootHash, err |-> err]

\* round holds the answers of the polling round under way.
PollIdle ==
    [seq |-> 0, fin |-> FALSE, idx |-> 1, info |-> NoInfo, tick |-> 0,
     round |-> <<>>, returned |-> FALSE]

PollStart(seq, fin) ==
    [seq |-> seq, fin |-> fin, idx |-> 1, info |-> NoInfo, tick |-> 0,
     round |-> <<>>, returned |-> FALSE]

TxHashOf(r) == IF r.present THEN "0xtx" ELSE ""

TreeFailedNever(f) == FALSE

\* Line 78: err != null || tree == null || tree.rootHash() == null; treeOk is
\* FALSE for a file with any of the three.
TreeFailed(f) == ~f.treeOk

\* Lines 77-85: file.merkleTree().
BuildTree ==
    /\ pc = "PreparingTree"
    /\ hist' = [hist EXCEPT !.treeBuilt = file.treeOk]
    /\ IF ~TreeFailed(file)
       THEN pc' = "CheckingExistingFile" /\ ret' = ret
       ELSE pc' = "Failed" /\ ret' = Return("", "", NewError({}))
    /\ UNCHANGED <<inputVars, calc, components, info, receipt, tasks, poll, gas, nodeLog, nodeSegs>>

FindNothing(i, throwing, queried) ==
    [info |-> NoInfo, queried |-> [n \in 1..Len(shardConfigs) |-> n]]

\* Lines 181-193: the for loop of findExistingFileInfo from node i on, the
\* nodes of `throwing` throwing; queried lists the nodes asked so far.
RECURSIVE FindFrom(_, _, _)
FindFrom(i, throwing, queried) ==
    IF i > Len(shardConfigs) THEN [info |-> NoInfo, queried |-> queried]
    ELSE IF i \notin throwing /\ EntryByRoot(i).present
    THEN [info |-> EntryByRoot(i), queried |-> Append(queried, i)]
    ELSE FindFrom(i + 1, throwing, Append(queried, i))

\* Lines 178-194: findExistingFileInfo; the nodes of `throwing` throw.
FirstKnowing(throwing) == FindFrom(1, throwing, <<>>)

ShouldSubmitUnlessSkipTx(o, existing) == ~o.skipTx

\* Line 89: the condition under which a transaction is submitted.
ShouldSubmit(o, existing) == ~o.skipTx \/ ~existing.present

\* Lines 88-89.
FindExisting(throwing) ==
    /\ pc = "CheckingExistingFile"
    /\ throwing \subseteq SegmentSet(FirstKnowing(throwing).queried)
    /\ info' = FirstKnowing(throwing).info
    /\ pc' = IF ShouldSubmit(opts, info') THEN "SubmittingTransaction" ELSE "PlanningTasks"
    /\ hist' = [hist EXCEPT !.found = info', !.lookedUp = TRUE,
                            !.lookup = [queried |-> FirstKnowing(throwing).queried,
                                        throwing |-> throwing]]
    /\ UNCHANGED <<inputVars, calc, components, receipt, ret, tasks, poll, gas, nodeLog, nodeSegs>>

\* Lines 90-96 and submitTransaction up to the call of txWithGasAdjustment
\* (lines 141-172); `suggested` is the network's fee data (Unset = null).
StartSubmission(suggested) ==
    /\ pc = "SubmittingTransaction"
    /\ gas.pc = "idle"
    /\ IF ~file.subOk
       THEN /\ pc' = "Failed"
            /\ ret' = Return("", "root", NewError({}))
            /\ UNCHANGED <<gas, hist>>
       ELSE IF gasPrice <= 0 /\ suggested = Unset
       THEN /\ pc' = "Failed"
            /\ ret' = Return("", "root", NewError({}))
            /\ hist' = [hist EXCEPT !.ledgerCalls = @ + 1]
            /\ UNCHANGED gas
       ELSE /\ gas' = GasStart(IF gasPrice > 0 THEN gasPrice ELSE suggested, retryOpts)
            /\ hist' = [hist EXCEPT !.ledgerCalls = @ + 1]
            /\ UNCHANGED <<pc, ret>>
    /\ UNCHANGED <<inputVars, calc, components, info, receipt, tasks, poll, nodeLog, nodeSegs>>

HasSequenceNumberAlways(r) == TRUE

\* Lines 103-104: processLogs found a Submit event (txSeqs.length > 0).
HasSequenceNumber(r) == r.hasSubmitLog

\* Lines 173-176 and 98-112: the result of the submission, processLogs.
SubmitReturn ==
    /\ pc = "SubmittingTransaction"
    /\ gas.pc = "returned"
    /\ IF ~gas.retReceipt.present \/ gas.retErr.tag # "null"
       THEN /\ pc' = "Failed"
            /\ ret' = Return("", "root", NewError(gas.retErr.msg))
            /\ UNCHANGED <<receipt, poll>>
       ELSE IF ~HasSequenceNumber(gas.retReceipt)
       THEN /\ pc' = "Failed"
            /\ ret' = Return("", "root", NewError({}))
            /\ receipt' = gas.retReceipt
            /\ UNCHANGED poll
       ELSE /\ pc' = "AwaitingLogEntry"
            /\ receipt' = gas.retReceipt
            /\ poll' = PollStart(NewSeq, FALSE)
            /\ ret' = ret
    /\ UNCHANGED <<inputVars, calc, components, info, tasks, gas, nodeLog, nodeSegs, hist>>

\* Lines 244-274: waitForLogEntry queries the next node of the round; a node
\* without the entry (or without finality when required) ends the round and
\* the next one starts after the delay (tick tells two rounds apart); the last
\* node's answer ends the wait.
PollOkIgnoringFinality(e, finalityRequired) == e.present

PollOkNever(e, finalityRequired) == FALSE

\* Lines 252 and 263: the answer of one node lets the round go on.
PollOk(e, finalityRequired) == e.present /\ (finalityRequired => e.finalized)

PollNode ==
    /\ pc \in {"AwaitingLogEntry", "AwaitingFinality"}
    /\ LET e == EntryBySeq(poll.idx, poll.seq)
           ok == PollOk(e, poll.fin)
       IN  /\ hist' = IF pc = "AwaitingLogEntry"
                      THEN [hist EXCEPT !.polledEntry = TRUE]
                      ELSE [hist EXCEPT !.polledFinal = TRUE]
           /\ IF ~ok
              THEN /\ poll' = [poll EXCEPT !.idx = 1, !.info = e, !.tick = 1 - @,
                                            !.round = <<>>]
                   /\ UNCHANGED <<pc, info, ret>>
              ELSE IF poll.idx < Len(shardConfigs)
              THEN /\ poll' = [poll EXCEPT !.idx = @ + 1, !.info = e,
                                            !.round = Append(@, e)]
                   /\ UNCHANGED <<pc, info, ret>>
              ELSE /\ poll' = [poll EXCEPT !.info = e, !.round = Append(@, e),
                                            !.returned = TRUE]
                   /\ IF pc = "AwaitingLogEntry"
                      THEN pc' = "PlanningTasks" /\ info' = e /\ ret' = ret
                      ELSE /\ pc' = "Done"
                           /\ ret' = Return(TxHashOf(receipt), "root", NoValue)
                           /\ info' = info
    /\ UNCHANGED <<inputVars, calc, components, receipt, tasks, gas, nodeLog, nodeSegs>>

\* Lines 114-127: splitTasks and what uploadFile does with its result;
\* cfgOk = FALSE is getShardConfigs returning null.
FinalizedAtNoNode == {}

\* Lines 304-305: the nodes whose getFileInfo(rootHash) is a finalized entry.
FinalizedAt == {n \in Nodes : EntryByRoot(n).present /\ EntryByRoot(n).finalized}

AfterPlanningAlwaysUploads(planned) == "UploadingSegments"

\* Lines 125-128: an empty task list ends the call, any other is executed.
AfterPlanning(planned) == IF planned = <<>> THEN "Done" ELSE "UploadingSegments"

PlanningAllowedWithoutReplicaCheck(cfgOk, replicaOk) == cfgOk

\* Lines 290-298: splitTasks goes on only with shard configurations that pass
\* the replica check.
PlanningAllowed(cfgOk, replicaOk) == cfgOk /\ replicaOk

PlanTasks(cfgOk) ==
    /\ pc = "PlanningTasks"
    /\ IF ~info.present
       THEN /\ pc' = "Failed"
            /\ ret' = Return(TxHashOf(receipt), "root", NewError({}))
            /\ UNCHANGED <<tasks, hist>>
       ELSE IF ~PlanningAllowed(cfgOk, checkReplica(shardConfigs, opts.expectedReplica))
       THEN /\ pc' = "Failed"
            /\ ret' = Return(TxHashOf(receipt), "root", NewError({}))
            /\ hist' = [hist EXCEPT !.planCalls = @ + 1, !.cfgUnfit = TRUE]
            /\ UNCHANGED tasks
       ELSE /\ tasks' = SplitTasks(info, shardConfigs, FinalizedAt, opts.taskSize)
            /\ hist' = [hist EXCEPT !.planned = TRUE, !.planInfo = info,
                                    !.planFinalized = FinalizedAt,
                                    !.planCalls = @ + 1,
                                    !.cfgUnfit = ~cfgOk \/ ~checkReplica(shardConfigs,
                                                                        opts.expectedReplica)]
            /\ pc' = AfterPlanning(tasks')
            /\ ret' = IF pc' = "Done" THEN Return(TxHashOf(receipt), "root", NoValue)
                      ELSE ret
    /\ UNCHANGED <<inputVars, calc, components, info, receipt, poll, gas, nodeLog, nodeSegs>>

\* Lines 370-389: task i reads its batch and reaches the retry loop.
UploadFailedError == NewError({"Upload failed after"})

AfterRead(t, f, ro) ==
    LET r == ReadLoop(f, t, 0, t.segIndex, <<>>)
    IN  IF r.failed THEN [t EXCEPT !.pc = "done", !.result = r.err]
        ELSE IF 0 < MaxRetriesOf(ro)
        THEN [t EXCEPT !.pc = "upload", !.segments = r.segments]
        ELSE [t EXCEPT !.pc = "done", !.segments = r.segments,
                       !.result = UploadFailedError]

TaskRead(i) ==
    /\ pc = "UploadingSegments"
    /\ tasks[i].pc = "read"
    /\ tasks' = [tasks EXCEPT ![i] = AfterRead(tasks[i], file, retryOpts)]
    /\ UNCHANGED <<inputVars, calc, components, pc, info, receipt, ret, poll, gas, nodeLog, nodeSegs, hist>>

\* Lines 389-430: one upload call of task i, the node answering resp; an
\* acknowledging node has stored the batch.
TaskUpload(i, resp) ==
    /\ pc = "UploadingSegments"
    /\ tasks[i].pc = "upload"
    /\ tasks' = [tasks EXCEPT ![i] = UploadTurn(tasks[i], resp, retryOpts)]
    /\ nodeSegs' = IF resp.tag = "ack"
                   THEN [nodeSegs EXCEPT ![tasks[i].clientIndex] =
                            @ \cup SegmentSet(tasks[i].segments)]
                   ELSE nodeSegs
    /\ hist' = [hist EXCEPT !.uploaded = TRUE]
    /\ UNCHANGED <<inputVars, calc, components, pc, info, receipt, ret, poll, gas, nodeLog>>

\* Lines 411-413: the backoff sleep ends.
TaskWake(i) ==
    /\ pc = "UploadingSegments"
    /\ tasks[i].pc = "sleep"
    /\ tasks' = [tasks EXCEPT ![i] = AfterSleep(tasks[i], retryOpts)]
    /\ UNCHANGED <<inputVars, calc, components, pc, info, receipt, ret, poll, gas, nodeLog, nodeSegs, hist>>

FinalityWaitWithoutFinality(entry) == PollStart(entry.seq, FALSE)

\* Line 137: waitForLogEntry(info.tx.seq, true).
FinalityWait(entry) == PollStart(entry.seq, TRUE)

SomeTaskDone == \E i \in 1..Len(tasks) : tasks[i].pc = "done"

\* Lines 276-279 and 129-137: Promise.all has resolved; the results are
\* inspected in task order.
AllTasksDone == \A i \in 1..Len(tasks) : tasks[i].pc = "done"

FailedTasks == {i \in 1..Len(tasks) : InstanceOfError(tasks[i].result)}

CollectResults ==
    /\ pc = "UploadingSegments"
    /\ AllTasksDone
    /\ IF FailedTasks # {}
       THEN /\ pc' = "Failed"
            /\ ret' = Return(TxHashOf(receipt), "root",
                         tasks[CHOOSE i \in FailedTasks : \A j \in FailedTasks : i <= j].result)
            /\ poll' = poll
       ELSE /\ pc' = "AwaitingFinality"
            /\ poll' = FinalityWait(info)
            /\ ret' = ret
    /\ UNCHANGED <<inputVars, calc, components, info, receipt, tasks, gas, nodeLog, nodeSegs, hist>>

\* ------------------------------------------------------------------------
\* The storage network around the call
\* ------------------------------------------------------------------------
\* The ledger holds entry q: an earlier one some node already knows, or the
\* one of this call's confirmed submission.
OnLedger(q) ==
    \/ \E m \in Nodes : nodeLog[m][q] # "absent"
    \/ q = NewSeq /\ gas.retReceipt.present /\ gas.retReceipt.hasSubmitLog

\* A node learns a log entry of the ledger.
NodeSync(n, q) ==
    /\ OnLedger(q)
    /\ nodeLog[n][q] = "absent"
    /\ nodeLog' = [nodeLog EXCEPT ![n][q] = "pending"]
    /\ UNCHANGED <<inputVars, calc, components, pc, info, receipt, ret, tasks, poll, gas, nodeSegs, hist>>

\* A node that stores all segments of its shard finalizes the entries it knows.
NodeFinalize(n) ==
    /\ ShardSegments(n) \subseteq nodeSegs[n]
    /\ \E q \in Seqs : nodeLog[n][q] = "pending"
    /\ nodeLog' = [nodeLog EXCEPT ![n] =
                      [q \in Seqs |-> IF nodeLog[n][q] = "pending"
                                      THEN "finalized" ELSE nodeLog[n][q]]]
    /\ UNCHANGED <<inputVars, calc, components, pc, info, receipt, ret, tasks, poll, gas, nodeSegs, hist>>

\* ------------------------------------------------------------------------
\* Inputs
\* ------------------------------------------------------------------------
Cfg(shardId, numShard) == [shardId |-> shardId, numShard |-> numShard]

\* n nodes, node i holding shard i-1 of n.
Sharded(n) == [i \in 1..n |-> Cfg(i - 1, n)]

\* Every node holding the whole file.
Replicated(n) == [i \in 1..n |-> Cfg(0, 1)]

ShardLayouts ==
    {Sharded(n) : n \in 1..MaxNodes} \cup
    {Replicated(2), <<Cfg(0, 1), Cfg(0, 2)>>, <<Cfg(1, 2), Cfg(0, 2), Cfg(0, 1)>>}

\* Sizes in bytes of files of 1..maxSeg segments: one chunk and one byte, or a
\* whole segment, in the last segment.
FileSizes(maxSeg) ==
    {(k - 1) * DEFAULT_SEGMENT_SIZE + d :
        k \in 1..maxSeg, d \in {DEFAULT_CHUNK_SIZE + 1, DEFAULT_SEGMENT_SIZE}}

RECURSIVE NextPow2From(_, _)
NextPow2From(p, c) == IF p >= c THEN p ELSE NextPow2From(2 * p, c)

\* Where the ledger places a file of `size` bytes: at a multiple of its padded
\* chunk count, which is at most a segment.
StartEntryIndices(size) ==
    LET c == GetSplitNum(size, DEFAULT_CHUNK_SIZE)
        pad == NextPow2From(1, c)
    IN  {s * DEFAULT_SEGMENT_MAX_CHUNKS : s \in 0..MaxStartSegment} \cup
        (IF pad < DEFAULT_SEGMENT_MAX_CHUNKS
         THEN {DEFAULT_SEGMENT_MAX_CHUNKS - pad} ELSE {})

File(size, start) ==
    [size |-> size, startEntryIndex |-> start, treeOk |-> TRUE, subOk |-> TRUE,
     readFail |-> "none", failAt |-> 0]

HealthyFiles ==
    {File(sz, 0) : sz \in FileSizes(MaxFileSegments)} \cup
    UNION {{File(sz, st) : st \in StartEntryIndices(sz)} :
              sz \in {1, MaxFileSegments * DEFAULT_SEGMENT_SIZE}}

\* Retries is left unset unless an input sets it.
RetryOpts(retries, maxGas, interval) ==
    [defined |-> TRUE, TooManyDataRetries |-> retries, MaxGasPrice |-> maxGas,
     Interval |-> interval, Retries |-> Unset]

UndefinedRetryOpts ==
    [defined |-> FALSE, TooManyDataRetries |-> Unset, MaxGasPrice |-> 0,
     Interval |-> Unset, Retries |-> Unset]

Opts(skipTx, taskSize, expectedReplica) ==
    [skipTx |-> skipTx, taskSize |-> taskSize, expectedReplica |-> expectedReplica]

HistInit ==
    [treeBuilt |-> FALSE, ledgerCalls |-> 0, found |-> NoInfo, polledEntry |-> FALSE,
     polledFinal |-> FALSE, planned |-> FALSE, planInfo |-> NoInfo,
     planFinalized |-> {}, uploaded |-> FALSE, planCalls |-> 0, cfgUnfit |-> FALSE,
     lookedUp |-> FALSE, lookup |-> [queried |-> <<>>, throwing |-> {}],
     callerOpts |-> UndefinedRetryOpts]

\* The state when uploadFile is called.
\* What the nodes hold of an earlier submission of the same file: nothing, the
\* entry without the data, the finalized file, or the finalized file on the
\* first node only.
OldEntries(n) ==
    {[i \in 1..n |-> o] : o \in {"absent", "pending", "finalized"}} \cup
    {[i \in 1..n |-> IF i = 1 THEN "finalized" ELSE "absent"]}

InitWith(files, optsSet, roSet, gasPrices, layouts) ==
    /\ file \in files
    /\ opts \in optsSet
    /\ retryOpts \in roSet
    /\ gasPrice \in gasPrices
    /\ shardConfigs \in layouts
    /\ \E old \in OldEntries(Len(shardConfigs)) :
          nodeLog = [n \in 1..Len(shardConfigs) |->
                        [q \in Seqs |-> IF q = OldSeq THEN old[n] ELSE "absent"]]
    /\ nodeSegs = [n \in 1..Len(shardConfigs) |->
                      IF nodeLog[n][OldSeq] = "finalized" THEN ShardSegments(n) ELSE {}]
    /\ pc = "PreparingTree"
    /\ info = NoInfo
    /\ receipt = NoReceipt
    /\ ret = NotReturned
    /\ tasks = <<>>
    /\ poll = PollIdle
    /\ gas = GasIdle
    /\ hist = [HistInit EXCEPT !.callerOpts = retryOpts]
    /\ calc = NoCall
    /\ IdleComponents

\* ------------------------------------------------------------------------
\* uploadFile against a healthy ledger and healthy nodes
\* ------------------------------------------------------------------------
SuggestedGasPrice == 10

InitIdeal ==
    /\ InitWith(HealthyFiles,
                {Opts(s, t, r) : s \in BOOLEAN, t \in 1..MaxTaskSize, r \in 1..2},
                {UndefinedRetryOpts}, {0}, ShardLayouts)
    /\ checkReplica(shardConfigs, opts.expectedReplica)

UploaderIdeal ==
    \/ BuildTree
    \/ FindExisting({})
    \/ StartSubmission(SuggestedGasPrice)
    \/ GasAttempt(ReceiptOutcome)
    \/ SubmitReturn
    \/ PollNode
    \/ PlanTasks(TRUE)
    \/ \E i \in 1..Len(tasks) : TaskRead(i)
    \/ \E i \in 1..Len(tasks) : TaskUpload(i, AckValue)
    \/ CollectResults

Network ==
    \/ \E n \in Nodes, q \in Seqs : NodeSync(n, q)
    \/ \E n \in Nodes : NodeFinalize(n)

NextIdeal == UploaderIdeal \/ Network

SpecIdeal == InitIdeal /\ [][NextIdeal]_vars

\* The event loop runs every continuation that is ready, and the network
\* keeps working.
FairSpec == SpecIdeal /\ WF_vars(UploaderIdeal) /\ WF_vars(Network)

\* ------------------------------------------------------------------------
\* uploadFile against any ledger and any nodes
\* ------------------------------------------------------------------------
FaultyFiles ==
    {[File(DEFAULT_SEGMENT_SIZE, 0) EXCEPT !.treeOk = FALSE],
     [File(DEFAULT_SEGMENT_SIZE, 0) EXCEPT !.subOk = FALSE],
     [File(DEFAULT_SEGMENT_SIZE, 0) EXCEPT !.readFail = "error"]}

\* One answer of each class: acknowledged, null, already finalized, another
\* Error, a thrown value that is no Error.
SomeUploadResponses ==
    {AckValue, NoValue, Thrown(TRUE, {"Invalid params"}, "already exact"),
     NewError({}), Thrown(FALSE, {"too many data writing"}, "none")}

Init ==
    InitWith({File(sz, 0) : sz \in FileSizes(2)} \cup FaultyFiles,
             {Opts(s, 1, r) : s \in BOOLEAN, r \in 1..2},
             {UndefinedRetryOpts, RetryOpts(2, SuggestedGasPrice + 1, Unset)},
             {0, SuggestedGasPrice}, {Sharded(1), Sharded(2)})

Uploader ==
    \/ BuildTree
    \/ \E throwing \in SUBSET Nodes : FindExisting(throwing)
    \/ \E suggested \in {Unset, SuggestedGasPrice} : StartSubmission(suggested)
    \/ \E o \in GasOutcomes : GasAttempt(o)
    \/ GasExit
    \/ SubmitReturn
    \/ PollNode
    \/ \E cfgOk \in BOOLEAN : PlanTasks(cfgOk)
    \/ \E i \in 1..Len(tasks) : TaskRead(i)
    \/ \E i \in 1..Len(tasks), resp \in SomeUploadResponses : TaskUpload(i, resp)
    \/ \E i \in 1..Len(tasks) : TaskWake(i)
    \/ CollectResults

Next == Uploader \/ Network

Spec == Init /\ [][Next]_vars

\* ------------------------------------------------------------------------
\* splitTasks called on a log entry every node knows, then the tasks run
\* ------------------------------------------------------------------------
InitPlan ==
    /\ file \in HealthyFiles \cup {File((MaxFileSegments + 1) * DEFAULT_SEGMENT_SIZE, 0)}
    /\ NumSegments(file) > MaxFileSegments => shardConfigs = Sharded(2)
    /\ opts \in {Opts(FALSE, t, 1) : t \in 1..MaxTaskSize}
    /\ retryOpts = UndefinedRetryOpts
    /\ gasPrice = 0
    /\ shardConfigs \in ShardLayouts
    /\ \E old \in OldEntries(Len(shardConfigs)) :
          nodeLog = [n \in 1..Len(shardConfigs) |->
                        [q \in Seqs |-> IF q = OldSeq THEN old[n] ELSE "pending"]]
    /\ nodeSegs = [n \in 1..Len(shardConfigs) |->
                      IF nodeLog[n][OldSeq] = "finalized" THEN ShardSegments(n) ELSE {}]
    /\ pc = "PlanningTasks"
    /\ info = EntryBySeq(1, NewSeq)
    /\ receipt = [present |-> TRUE, hasSubmitLog |-> TRUE]
    /\ ret = NotReturned
    /\ tasks = <<>>
    /\ poll = PollIdle
    /\ gas = GasIdle
    /\ hist = [HistInit EXCEPT !.treeBuilt = TRUE, !.ledgerCalls = 1, !.polledEntry = TRUE]
    /\ calc = NoCall
    /\ IdleComponents

NextPlan ==
    \/ \E cfgOk \in BOOLEAN : PlanTasks(cfgOk)
    \/ \E i \in 1..Len(tasks) : TaskRead(i)
    \/ \E i \in 1..Len(tasks) : TaskUpload(i, AckValue)

SpecPlan == InitPlan /\ [][NextPlan]_vars

\* ------------------------------------------------------------------------
\* uploadTask called on one task, against any node
\* ------------------------------------------------------------------------
\* Files whose iterator reports not-ok at segment failAt: with an error value
\* ("error") or with a null one ("silent").
UnreadableFiles ==
    {[File(sz, 0) EXCEPT !.readFail = how, !.failAt = k] :
        sz \in FileSizes(2), k \in 0..1, how \in {"error", "silent"}}

InitTask ==
    /\ file \in {File(sz, 0) : sz \in FileSizes(MaxFileSegments)} \cup UnreadableFiles
    /\ opts \in {Opts(FALSE, t, 1) : t \in 1..MaxTaskSize}
    /\ retryOpts \in {UndefinedRetryOpts} \cup
                     {RetryOpts(r, 0, iv) : r \in {Unset} \cup 0..MaxRetriesInput,
                                            iv \in {Unset, 0, 2}}
    /\ gasPrice = 0
    /\ shardConfigs \in {Sharded(1), Sharded(2)}
    /\ nodeLog = [n \in Nodes |-> [q \in Seqs |-> IF q = NewSeq THEN "pending" ELSE "absent"]]
    /\ nodeSegs = [n \in Nodes |-> {}]
    /\ pc = "UploadingSegments"
    /\ info = EntryBySeq(1, NewSeq)
    /\ receipt = [present |-> TRUE, hasSubmitLog |-> TRUE]
    /\ ret = NotReturned
    /\ \E n \in Nodes, seg \in 0..(NumSegments(file) - 1) :
          tasks = <<NewTask(n, opts.taskSize, seg, shardConfigs[n].numShard, NewSeq)>>
    /\ poll = PollIdle
    /\ gas = GasIdle
    /\ hist = [HistInit EXCEPT !.treeBuilt = TRUE, !.planned = TRUE, !.planInfo = info,
                               !.callerOpts = retryOpts]
    /\ calc = NoCall
    /\ IdleComponents

NextTask ==
    \/ TaskRead(1)
    \/ \E resp \in UploadResponses : TaskUpload(1, resp)
    \/ TaskWake(1)

SpecTask == InitTask /\ [][NextTask]_vars

\* ------------------------------------------------------------------------
\* txWithGasAdjustment called on one submission, against any ledger
\* ------------------------------------------------------------------------
InitGas ==
    /\ file = File(DEFAULT_SEGMENT_SIZE, 0)
    /\ opts = Opts(FALSE, 1, 1)
    /\ retryOpts \in {UndefinedRetryOpts} \cup
                     {RetryOpts(Unset, m, Unset) : m \in 0..MaxGasCap}
    /\ gasPrice \in 1..MaxGasPriceInput
    /\ shardConfigs = Sharded(1)
    /\ nodeLog = [n \in Nodes |-> [q \in Seqs |-> "absent"]]
    /\ nodeSegs = [n \in Nodes |-> {}]
    /\ pc = "SubmittingTransaction"
    /\ info = NoInfo
    /\ receipt = NoReceipt
    /\ ret = NotReturned
    /\ tasks = <<>>
    /\ poll = PollIdle
    /\ gas = GasStart(gasPrice, retryOpts)
    /\ hist = [HistInit EXCEPT !.treeBuilt = TRUE, !.ledgerCalls = 1,
                               !.callerOpts = retryOpts]
    /\ calc = NoCall
    /\ IdleComponents

NextGas ==
    \/ \E o \in GasOutcomes : GasAttempt(o)
    \/ GasExit

SpecGas == InitGas /\ [][NextGas]_vars

\* ------------------------------------------------------------------------
\* txWithGasAdjustment against a ledger on which every attempt times out
\* ------------------------------------------------------------------------
NextGasTimeout ==
    \/ GasAttempt(TxNullOutcome)
    \/ GasExit

\* The loop takes its next turn whenever it can.
SpecGasTimeout == InitGas /\ [][NextGasTimeout]_vars /\ WF_vars(NextGasTimeout)

\* ------------------------------------------------------------------------
\* The utility functions called on their own: nextSgmentIndex, GetSplitNum,
\* SegmentRange
\* ------------------------------------------------------------------------
Call(fn, args) == [fn |-> fn, args |-> args, done |-> FALSE, out |-> <<>>]

\* Shard configurations with 0 <= shardId < numShard, and numShard < 2.
ShardConfigInputs ==
    {Cfg(0, 0), Cfg(0, 1)} \cup
    UNION {{Cfg(s, n) : s \in 0..(n - 1)} : n \in 2..MaxShardCount}

SplitTotals == (1..MaxSplitTotal) \cup {9999, 10000}

SplitUnits == (1..MaxSplitUnit) \cup {999, 1000}

\* Start chunk indices around the segment boundaries.
StartChunkIndices ==
    {k * DEFAULT_SEGMENT_MAX_CHUNKS + d :
        k \in 0..MaxStartSegment, d \in {0, 1, DEFAULT_SEGMENT_MAX_CHUNKS - 1}}

\* File sizes in bytes around the chunk and segment boundaries.
RangeSizes ==
    {1} \cup {k * DEFAULT_SEGMENT_SIZE + d :
               k \in 0..MaxFileSegments,
               d \in {DEFAULT_CHUNK_SIZE, DEFAULT_CHUNK_SIZE + 1, DEFAULT_SEGMENT_SIZE}}

UtilCalls ==
    {Call("nextSgmentIndex", <<c, i>>) : c \in ShardConfigInputs, i \in 0..MaxFromIndex} \cup
    {Call("GetSplitNum", <<tot, u>>) : tot \in SplitTotals, u \in SplitUnits} \cup
    {Call("SegmentRange", <<st, sz>>) : st \in StartChunkIndices, sz \in RangeSizes}

InitUtil ==
    /\ file = File(DEFAULT_SEGMENT_SIZE, 0)
    /\ opts = Opts(FALSE, 1, 1)
    /\ retryOpts = UndefinedRetryOpts
    /\ gasPrice = 0
    /\ shardConfigs = Sharded(1)
    /\ nodeLog = [n \in Nodes |-> [q \in Seqs |-> "absent"]]
    /\ nodeSegs = [n \in Nodes |-> {}]
    /\ pc = "NotCalled"
    /\ info = NoInfo
    /\ receipt = NoReceipt
    /\ ret = NotReturned
    /\ tasks = <<>>
    /\ poll = PollIdle
    /\ gas = GasIdle
    /\ hist = HistInit
    /\ calc \in UtilCalls
    /\ IdleComponents

CallNextSgmentIndex ==
    /\ calc.fn = "nextSgmentIndex"
    /\ ~calc.done
    /\ calc' = [calc EXCEPT !.done = TRUE,
                            !.out = <<nextSgmentIndex(calc.args[1], calc.args[2])>>]
    /\ UNCHANGED <<inputVars, components, pc, info, receipt, ret, tasks, poll, gas, nodeLog,
                   nodeSegs, hist>>

CallGetSplitNum ==
    /\ calc.fn = "GetSplitNum"
    /\ ~calc.done
    /\ calc' = [calc EXCEPT !.done = TRUE,
                            !.out = <<GetSplitNum(calc.args[1], calc.args[2])>>]
    /\ UNCHANGED <<inputVars, components, pc, info, receipt, ret, tasks, poll, gas, nodeLog,
                   nodeSegs, hist>>

CallSegmentRange ==
    /\ calc.fn = "SegmentRange"
    /\ ~calc.done
    /\ calc' = [calc EXCEPT !.done = TRUE,
                            !.out = SegmentRange(calc.args[1], calc.args[2])]
    /\ UNCHANGED <<inputVars, components, pc, info, receipt, ret, tasks, poll, gas, nodeLog,
                   nodeSegs, hist>>

NextUtil ==
    \/ CallNextSgmentIndex
    \/ CallGetSplitNum
    \/ CallSegmentRange

SpecUtil == InitUtil /\ [][NextUtil]_vars

\* ------------------------------------------------------------------------
\* Memory on its own: the uploader is idle
\* ------------------------------------------------------------------------
UploaderIdle ==
    /\ file = File(DEFAULT_SEGMENT_SIZE, 0)
    /\ opts = Opts(FALSE, 1, 1)
    /\ retryOpts = UndefinedRetryOpts
    /\ gasPrice = 0
    /\ shardConfigs = Sharded(1)
    /\ nodeLog = [n \in Nodes |-> [q \in Seqs |-> "absent"]]
    /\ nodeSegs = [n \in Nodes |-> {}]
    /\ pc = "NotCalled"
    /\ info = NoInfo
    /\ receipt = NoReceipt
    /\ ret = NotReturned
    /\ tasks = <<>>
    /\ poll = PollIdle
    /\ gas = GasIdle
    /\ hist = HistInit
    /\ calc = NoCall

\* The constructor (part_008 lines 10-14) with a non-negative maximum.
InitMemory ==
    /\ UploaderIdle
    /\ agent = NoAgent
    /\ factory = NoFactory
    /\ memory \in {[NoMemory EXCEPT !.max = m] : m \in 0..MaxEphemeral}

NextMemory ==
    \/ AddMessage
    \/ ClearEphemeralMessages
    \/ \E key \in Keys, v \in JsonValues : Remember(key, v)
    \/ \E key \in Keys : Recall(key)
    \/ \E key \in Keys : Forget(key)

SpecMemory == InitMemory /\ [][NextMemory]_vars

\* ------------------------------------------------------------------------
\* One agent contract on its own
\* ------------------------------------------------------------------------
InitAgent ==
    /\ UploaderIdle
    /\ IdleComponents

NextAgent ==
    \/ \E amount \in {0, MaxDeposits \div 2} : Deposit(amount)
    \/ \E isOwner \in BOOLEAN, recipientOk \in BOOLEAN, amount \in 0..MaxAmount,
          transferOk \in BOOLEAN :
          AdminWithdraw(isOwner, recipientOk, amount, transferOk)
    \/ \E hasRole \in BOOLEAN, recipientOk \in BOOLEAN, amount \in 0..MaxAmount,
          transferOk \in BOOLEAN :
          AgentSpend(hasRole, recipientOk, amount, transferOk)
    \/ \E p \in BOOLEAN : SetAgentPaused(p)
    \/ AdvanceClock

SpecAgent == InitAgent /\ [][NextAgent]_vars

\* ------------------------------------------------------------------------
\* The factory on its own
\* ------------------------------------------------------------------------
InitFactory ==
    /\ UploaderIdle
    /\ memory = NoMemory
    /\ agent = NoAgent
    /\ factory \in {[NoFactory EXCEPT !.deploymentFee = fee] : fee \in 0..1}

NextFactory ==
    \/ \E caller \in Owners, name \in AgentNames, len \in {0, 501},
          value \in 0..MaxValue, refundOk \in BOOLEAN :
          Deploy("deployAgent", caller, name, len, 0, value, refundOk)
    \/ \E caller \in Owners, name \in AgentNames, len \in {0, 501},
          funding \in 0..1, value \in 0..MaxValue, refundOk \in BOOLEAN :
          Deploy("deployAgentWithFunding", caller, name, len, funding, value,
                 refundOk)
    \/ \E p \in BOOLEAN : SetFactoryPaused(p)

SpecFactory == InitFactory /\ [][NextFactory]_vars

\* ------------------------------------------------------------------------
\* waitForLogEntry on its own: uploadFile waits for the entry or for its
\* finality while the nodes sync, finalize, or stall
\* ------------------------------------------------------------------------
InitWait ==
    /\ file = File(DEFAULT_SEGMENT_SIZE, 0)
    /\ opts = Opts(FALSE, 1, 1)
    /\ retryOpts = UndefinedRetryOpts
    /\ gasPrice = 0
    /\ shardConfigs \in {Replicated(n) : n \in 1..MaxNodes}
    /\ nodeLog \in [1..Len(shardConfigs) ->
                       {[q \in Seqs |-> IF q = NewSeq THEN st ELSE "absent"] :
                           st \in {"absent", "pending", "finalized"}}]
    /\ nodeSegs \in [1..Len(shardConfigs) -> {{}, ShardSegments(1)}]
    /\ \A n \in 1..Len(shardConfigs) :
          nodeLog[n][NewSeq] = "finalized" => nodeSegs[n] = ShardSegments(n)
    /\ pc \in {"AwaitingLogEntry", "AwaitingFinality"}
    /\ poll = PollStart(NewSeq, pc = "AwaitingFinality")
    /\ info = NoInfo
    /\ receipt = [present |-> TRUE, hasSubmitLog |-> TRUE]
    /\ ret = NotReturned
    /\ tasks = <<>>
    /\ gas = [GasIdle EXCEPT !.retReceipt = receipt]
    /\ hist = [HistInit EXCEPT !.treeBuilt = TRUE, !.ledgerCalls = 1]
    /\ calc = NoCall
    /\ IdleComponents

NextWait == PollNode \/ Network

\* The timer of line 248 fires and the nodes answer: the loop keeps running.
\* The network is under no obligation.
SpecWait == InitWait /\ [][NextWait]_vars /\ WF_vars(PollNode)

\* ------------------------------------------------------------------------
\* Properties of task planning and of the whole upload
\* ------------------------------------------------------------------------
\* The segments (relative to the file's first segment) task t reads and sends.
TaskSegments(t) == SegmentSet(ReadLoop(file, t, 0, t.segIndex, <<>>).segments)

IsSharded == Len(shardConfigs) >= 2 /\ shardConfigs = Sharded(Len(shardConfigs))

\* C5: with N >= 2 nodes, node i holding shard i of N and none finalized, a
\* file at segments [0, E] and every task acknowledged, node i has received
\* exactly the segments j of [0, E] with j mod N = i.
C5_EachShardReceivesExactlyItsSegments ==
    (/\ pc \in {"AwaitingFinality", "Done"}
     /\ hist.uploaded
     /\ IsSharded
     /\ file.startEntryIndex = 0
     /\ hist.planFinalized = {})
    => \A n \in Nodes :
          nodeSegs[n] = {j \in 0..(NumSegments(file) - 1) :
                            j % Len(shardConfigs) = n - 1}

C7_UploadEventuallySucceeds == <>(pc = "Done" /\ ret.returned /\ ret.err.tag = "null")

\* ------------------------------------------------------------------------
\* Properties of uploadFile
\* ------------------------------------------------------------------------
\* A task that ended in failure: with the error of an exhausted retry, with
\* the thrown value of a non-retryable failure, or with a read error.
TaskFailed(t) == t.pc = "done" /\ t.result.tag = "thrown"

\* C1: once an upload task has ended in failure, uploadFile never starts the
\* finality wait and never returns success; what it returns is a non-null
\* error, the failure of a failed task.
C1_FailedTaskFailsUpload ==
    (\E i \in 1..Len(tasks) : TaskFailed(tasks[i]))
    => /\ pc \notin {"AwaitingFinality", "Done"}
       /\ ~hist.polledFinal
       /\ ret.returned =>
             /\ ret.err.tag # "null"
             /\ \E i \in 1..Len(tasks) : TaskFailed(tasks[i]) /\ ret.err = tasks[i].result

\* C8: the phases of uploadFile occur in causal order: no ledger call before
\* the tree is built, no log-entry poll before the submission is confirmed,
\* no planning without a log entry, no segment upload before planning, and
\* no finality poll before every task has terminated.
C8_PhasesInCausalOrder ==
    /\ hist.ledgerCalls > 0 => hist.treeBuilt
    /\ gas.pc # "idle" => hist.treeBuilt
    /\ hist.polledEntry => receipt.present /\ receipt.hasSubmitLog /\ gas.pc = "returned"
    /\ pc = "AwaitingLogEntry" => receipt.present /\ poll.seq = NewSeq /\ ~poll.fin
    /\ hist.planned => hist.planInfo.present /\ (hist.polledEntry \/ hist.planInfo = hist.found)
    /\ (hist.uploaded \/ \E i \in 1..Len(tasks) : tasks[i].pc # "read") => hist.planned
    /\ tasks # <<>> => hist.planned
    /\ (hist.polledFinal \/ pc = "AwaitingFinality") =>
          /\ tasks # <<>>
          /\ \A i \in 1..Len(tasks) : tasks[i].pc = "done"
          /\ poll.fin

C8_Witness ==
    /\ pc = "Done"
    /\ hist.polledEntry
    /\ hist.polledFinal
    /\ Len(tasks) = 2
    /\ hist.ledgerCalls >= 2

\* C9: the submission is skipped exactly when skipTx is set and an existing
\* info was found; when skipped, no ledger call is made, the returned txHash
\* is empty and the existing info is what planning and the finality wait use;
\* otherwise the ledger is called (unless the submission cannot be built) and
\* planning only follows a receipt.
C9_SubmissionSkippedIffSkipTxAndFound ==
    LET checked == pc \notin {"PreparingTree", "CheckingExistingFile"} /\ hist.treeBuilt
        skip == opts.skipTx /\ hist.found.present
    IN  /\ (checked /\ skip) =>
              /\ hist.ledgerCalls = 0
              /\ gas.pc = "idle"
              /\ ~receipt.present
              /\ ~hist.polledEntry
              /\ pc # "SubmittingTransaction"
              /\ ret.returned => ret.txHash = ""
              /\ hist.planned => hist.planInfo = hist.found
              /\ pc = "AwaitingFinality" => poll.seq = hist.found.seq /\ poll.fin
        /\ (checked /\ ~skip) =>
              /\ pc # "SubmittingTransaction" => (hist.ledgerCalls >= 1 \/ ~file.subOk)
              /\ hist.planned => receipt.present /\ hist.planInfo.seq = NewSeq
              /\ (pc = "Done" /\ ret.returned) => ret.txHash # ""

C9_Witness ==
    /\ opts.skipTx
    /\ hist.found.present
    /\ ~hist.found.finalized
    /\ pc = "Done"
    /\ hist.uploaded
    /\ hist.polledFinal
    /\ ret.txHash = ""

\* ------------------------------------------------------------------------
\* Properties of uploadTask
\* ------------------------------------------------------------------------
\* The classes of an answer, as the claims name them.
AnswerAlready(resp) ==
    resp.tag \in {"null", "thrown"} /\ isAlreadyUploadedError(CaughtError(resp))

AnswerRetryable(resp) ==
    /\ resp.tag \in {"null", "thrown"}
    /\ ~AnswerAlready(resp)
    /\ isRetryableError(CaughtError(resp))

AnswerFatal(resp) ==
    resp.tag \in {"null", "thrown"} /\ ~AnswerAlready(resp) /\ ~AnswerRetryable(resp)

\* C2: with maxRetries = R >= 1, a task never makes more than R upload calls;
\* after k < R retryable answers followed by an acknowledgement it has made
\* k + 1 calls and reports success; after R retryable answers it has made R
\* calls and reports a failure naming R attempts and the last error.
C2_RetryableAnswersAreRetriedUpToMaxRetries ==
    LET t == tasks[1]
        R == MaxRetriesOf(retryOpts)
    IN  R >= 1 =>
        /\ t.calls <= R
        /\ t.pc \in {"upload", "sleep"} => t.calls = Len(t.sleeps) /\ t.calls < R
        /\ (t.pc = "upload" /\ t.calls > 0) => AnswerRetryable(t.lastResp)
        /\ t.pc = "sleep" => AnswerRetryable(t.lastResp)
        /\ (t.pc = "done" /\ t.lastResp.tag = "ack") =>
              /\ t.calls = Len(t.sleeps) + 1
              /\ Len(t.sleeps) < R
              /\ t.result = AckValue
        /\ (t.pc = "done" /\ AnswerRetryable(t.lastResp)) =>
              /\ t.calls = R
              /\ Len(t.sleeps) = R - 1
              /\ InstanceOfError(t.result)
              /\ t.result.attempts = R
              /\ "Failed after" \in t.result.msg
              /\ CaughtError(t.lastResp).msg \subseteq t.result.msg

C2_Witness ==
    /\ MaxRetriesOf(retryOpts) = 3
    /\ tasks[1].pc = "done"
    /\ tasks[1].calls = 3
    /\ tasks[1].lastResp.tag = "ack"
    /\ tasks[1].result = AckValue

\* C3: an upload call answered with the 'already uploaded and finalized' error
\* ends the task at once with success, on the first attempt or on a retry,
\* also when the same error is retryable by its message; no sleep and no call
\* follows it.
C3_AlreadyUploadedIsSuccess ==
    LET t == tasks[1]
    IN  (t.calls > 0 /\ AnswerAlready(t.lastResp)) =>
           /\ t.pc = "done"
           /\ t.result = ZeroValue
           /\ ~InstanceOfError(t.result)
           /\ Len(t.sleeps) = t.calls - 1

C3_Witness ==
    /\ tasks[1].pc = "done"
    /\ tasks[1].calls = 2
    /\ AnswerAlready(tasks[1].lastResp)
    /\ isRetryableError(tasks[1].lastResp)
    /\ tasks[1].result = ZeroValue

\* C4: an upload call answered with an error that is neither 'already
\* uploaded and finalized' nor retryable ends the task at once: no sleep and
\* no call follows it and the task reports that error.
C4_FatalErrorEndsTask ==
    LET t == tasks[1]
    IN  (t.calls > 0 /\ AnswerFatal(t.lastResp)) =>
           /\ t.pc = "done"
           /\ t.result = t.lastResp
           /\ t.lastError = t.lastResp
           /\ Len(t.sleeps) = t.calls - 1

C4_Witness ==
    /\ tasks[1].pc = "done"
    /\ tasks[1].calls = 1
    /\ tasks[1].lastResp = NewError({})
    /\ tasks[1].result = NewError({})
    /\ tasks[1].sleeps = <<>>

\* ------------------------------------------------------------------------
\* Properties of txWithGasAdjustment
\* ------------------------------------------------------------------------
GasCap ==
    IF retryOpts.defined /\ retryOpts.MaxGasPrice > 0 THEN retryOpts.MaxGasPrice
    ELSE gasPrice

\* C10: the first attempt uses the caller's gas price and each retry
\* floor(11 * previous / 10); a retry only follows a timeout error; any other
\* error is returned with no further attempt; no attempt is sent above the
\* cap (MaxGasPrice when positive, else the caller's price); and without a
\* maximum at most one attempt is made.
C10_GasEscalation ==
    LET n == Len(gas.sent)
    IN  /\ n >= 1 => gas.sent[1] = gasPrice
        /\ \A i \in 2..n : gas.sent[i] = (11 * gas.sent[i - 1]) \div 10
        /\ \A i \in 1..(n - 1) :
              gas.outcomes[i].kind = "throw" /\ IsTimeoutError(gas.outcomes[i].thrown)
        /\ (n >= 1 /\ gas.outcomes[n].kind = "throw"
                   /\ ~IsTimeoutError(gas.outcomes[n].thrown)) =>
              /\ gas.pc = "returned"
              /\ gas.retErr = gas.outcomes[n].thrown
              /\ ~gas.retReceipt.present
        /\ \A i \in 1..n : gas.sent[i] <= GasCap
        /\ ~(retryOpts.defined /\ retryOpts.MaxGasPrice > 0) => n <= 1

\* C11: against a ledger that answers every attempt with a timeout,
\* txWithGasAdjustment returns after finitely many attempts, for every initial
\* gas price and every cap.
C11_GasEscalationTerminates == <>(gas.pc = "returned")

\* ------------------------------------------------------------------------
\* Properties of waitForLogEntry and of the end of uploadFile
\* ------------------------------------------------------------------------
\* C12: waitForLogEntry returns only at the end of a round in which every
\* node, asked in order, answered with an entry of the awaited sequence number
\* (finalized when finality is required); it returns the last node's answer,
\* and uploadFile does not go on before it returned.
C12_WaitReturnsAfterFullRound ==
    /\ poll.returned =>
          /\ Len(poll.round) = Len(shardConfigs)
          /\ \A k \in 1..Len(poll.round) :
                /\ poll.round[k].present
                /\ poll.round[k].seq = poll.seq
                /\ poll.fin => poll.round[k].finalized
          /\ poll.info = poll.round[Len(poll.round)]
    /\ (~poll.returned /\ poll.seq # 0) =>
          /\ pc \in {"AwaitingLogEntry", "AwaitingFinality"}
          /\ Len(poll.round) = poll.idx - 1
    /\ (pc = "PlanningTasks" /\ hist.polledEntry) =>
          poll.returned /\ ~poll.fin /\ info = poll.info
    /\ (pc = "Done" /\ hist.polledFinal) => poll.returned /\ poll.fin

C12_Witness ==
    /\ poll.returned
    /\ poll.fin
    /\ poll.tick = 1
    /\ Len(poll.round) = 2
    /\ pc = "Done"

\* C13: when uploadFile has returned success with at least one upload task,
\* a finality poll on the log entry's sequence number has completed, every
\* node answering finalized, and nothing followed it; a success without that
\* poll has an empty task list.
C13_SuccessFollowsFinalityPoll ==
    (ret.returned /\ ret.err.tag = "null") =>
        /\ pc = "Done"
        /\ tasks # <<>> =>
              /\ hist.polledFinal
              /\ poll.returned
              /\ poll.fin
              /\ poll.seq = info.seq
              /\ Len(poll.round) = Len(shardConfigs)
              /\ \A k \in 1..Len(poll.round) :
                    poll.round[k].finalized /\ poll.round[k].seq = info.seq
              /\ \A i \in 1..Len(tasks) : tasks[i].pc = "done"
        /\ ~hist.polledFinal => tasks = <<>>

C13_Witness ==
    /\ ret.returned
    /\ ret.err.tag = "null"
    /\ ret.txHash # ""
    /\ Len(tasks) = 2
    /\ hist.polledFinal
    /\ Len(shardConfigs) = 2

\* ------------------------------------------------------------------------
\* Properties of planning inside uploadFile
\* ------------------------------------------------------------------------
\* C14: when splitTasks returns an empty task list, uploadFile returns success
\* at once: no segment is read, no node receives an upload call and no
\* finality poll is made.
C14_EmptyTaskListIsSuccess ==
    (hist.planned /\ tasks = <<>>) =>
        /\ pc = "Done"
        /\ ret.returned
        /\ ret.err.tag = "null"
        /\ ret.txHash = TxHashOf(receipt)
        /\ ~hist.uploaded
        /\ ~hist.polledFinal
        /\ ~poll.fin

C14_Witness ==
    /\ hist.planned
    /\ tasks = <<>>
    /\ hist.planFinalized = Nodes
    /\ Len(shardConfigs) = 2
    /\ receipt.present
    /\ ret.returned

\* The nodes splitTasks made a task for.
TaskTargets == {tasks[i].clientIndex : i \in 1..Len(tasks)}

\* C15: splitTasks makes no task for a node that reports the file finalized,
\* whatever the other nodes report, and does not skip a node that reports no
\* entry or an entry that is not finalized (and has a segment in range).
C15_FinalizedNodesGetNoTask ==
    hist.planned =>
        \A n \in Nodes :
            LET e == EntryByRoot(n)
                range == SegmentRange(hist.planInfo.startEntryIndex, hist.planInfo.size)
                first == nextSgmentIndex(shardConfigs[n], range[1])
            IN  /\ (e.present /\ e.finalized) => n \notin TaskTargets
                /\ (~(e.present /\ e.finalized) /\ first <= range[2]) => n \in TaskTargets

C15_Witness ==
    /\ hist.planned
    /\ Len(shardConfigs) = 2
    /\ EntryByRoot(1).finalized
    /\ ~EntryByRoot(2).finalized
    /\ TaskTargets = {2}
    /\ Len(tasks) = 2

\* C16: for every task of a node of shard id s with numShard >= 2, every
\* segment index i the task reads and sends (relative to the file's start
\* segment) satisfies i mod numShard = s, for every start entry index.
C16_RelativeSegmentIndexCongruentToShard ==
    hist.planned =>
        \A i \in 1..Len(tasks) :
            tasks[i].numShard >= 2 =>
                \A j \in TaskSegments(tasks[i]) :
                    j % tasks[i].numShard = shardConfigs[tasks[i].clientIndex].shardId

\* ------------------------------------------------------------------------
\* Properties of the utility functions
\* ------------------------------------------------------------------------
\* C17: nextSgmentIndex(config, fromIndex) returns fromIndex for numShard < 2;
\* for numShard >= 2 and 0 <= shardId < numShard its result r has
\* r mod numShard = shardId and fromIndex <= r < fromIndex + numShard.
C17_NextSegmentIndexIsNextOfShard ==
    (calc.fn = "nextSgmentIndex" /\ calc.done) =>
        LET config == calc.args[1]
            fromIndex == calc.args[2]
            r == calc.out[1]
        IN  IF config.numShard < 2 THEN r = fromIndex
            ELSE /\ r % config.numShard = config.shardId
                 /\ r >= fromIndex
                 /\ r < fromIndex + config.numShard

C17_Witness ==
    /\ calc.fn = "nextSgmentIndex"
    /\ calc.done
    /\ calc.args[1] = Cfg(1, 3)
    /\ calc.args[2] = 5
    /\ calc.out = <<7>>

\* C18: GetSplitNum(total, unit) is the ceiling of total / unit:
\* GetSplitNum * unit >= total and (GetSplitNum - 1) * unit < total.
C18_GetSplitNumIsCeiling ==
    (calc.fn = "GetSplitNum" /\ calc.done) =>
        LET total == calc.args[1]
            unit == calc.args[2]
            n == calc.out[1]
        IN  /\ n * unit >= total
            /\ (n - 1) * unit < total

C18_Witness ==
    /\ calc.fn = "GetSplitNum"
    /\ calc.done
    /\ calc.args = <<10000, 1000>>
    /\ calc.out = <<10>>

\* C19: SegmentRange(startChunkIndex + DEFAULT_SEGMENT_MAX_CHUNKS, size) is
\* SegmentRange(startChunkIndex, size) with both indices increased by 1, and
\* the start index never exceeds the end index.
C19_SegmentRangeShifts ==
    (calc.fn = "SegmentRange" /\ calc.done) =>
        LET shifted == SegmentRange(calc.args[1] + DEFAULT_SEGMENT_MAX_CHUNKS, calc.args[2])
        IN  /\ shifted = <<calc.out[1] + 1, calc.out[2] + 1>>
            /\ calc.out[1] <= calc.out[2]
            /\ shifted[1] <= shifted[2]

C19_Witness ==
    /\ calc.fn = "SegmentRange"
    /\ calc.done
    /\ calc.args = <<DEFAULT_SEGMENT_MAX_CHUNKS - 1, DEFAULT_CHUNK_SIZE + 1>>
    /\ calc.out = <<0, 1>>

\* ------------------------------------------------------------------------
\* Properties of a refused planning step
\* ------------------------------------------------------------------------
\* C20: when the shard configurations cannot be fetched or fail the replica
\* check, splitTasks produces no task and uploadFile returns a non-null error:
\* no segment is read, no node receives an upload call, planning is not tried
\* again and no finality poll is made.
C20_UnfitShardConfigsFailFast ==
    /\ hist.planCalls <= 1
    /\ hist.cfgUnfit =>
          /\ pc = "Failed"
          /\ ret.returned
          /\ InstanceOfError(ret.err)
          /\ ret.txHash = TxHashOf(receipt)
          /\ tasks = <<>>
          /\ ~hist.planned
          /\ ~hist.uploaded
          /\ ~hist.polledFinal

C20_Witness ==
    /\ hist.cfgUnfit
    /\ ~checkReplica(shardConfigs, opts.expectedReplica)
    /\ Len(shardConfigs) = 2
    /\ hist.polledEntry
    /\ pc = "Failed"

\* ------------------------------------------------------------------------
\* Properties of the early failures of uploadFile
\* ------------------------------------------------------------------------
\* C21: when the Merkle tree cannot be built or has no root hash, uploadFile
\* returns an error at once: no node is queried, no transaction is submitted,
\* nothing is retried, and the returned txHash and rootHash are empty.
C21_TreeFailureReturnsAtOnce ==
    ~file.treeOk =>
        /\ pc \in {"PreparingTree", "Failed"}
        /\ pc = "Failed" =>
              /\ ret.returned
              /\ InstanceOfError(ret.err)
              /\ ret.txHash = ""
              /\ ret.rootHash = ""
        /\ ~hist.lookedUp
        /\ hist.ledgerCalls = 0
        /\ gas = GasIdle
        /\ poll = PollIdle
        /\ tasks = <<>>
        /\ \A n \in Nodes : nodeSegs[n] = {} \/ nodeLog[n][OldSeq] = "finalized"

C21_Witness ==
    /\ ~file.treeOk
    /\ pc = "Failed"
    /\ ret.returned
    /\ ret.rootHash = ""
    /\ Len(shardConfigs) = 2

\* The submission has come back without a usable sequence number: without a
\* receipt, with an error, or with a receipt that holds no Submit event.
SubmissionUnusable ==
    /\ gas.pc = "returned"
    /\ \/ ~gas.retReceipt.present
       \/ gas.retErr.tag # "null"
       \/ ~gas.retReceipt.hasSubmitLog

\* C22: when the confirmed receipt yields no sequence number, or when
\* submitTransaction fails, uploadFile returns an error (that of the
\* failed submission) and never enters the log-entry wait, task planning or
\* segment upload.
C22_NoSequenceNumberFailsUpload ==
    /\ SubmissionUnusable =>
          /\ pc \in {"SubmittingTransaction", "Failed"}
          /\ ~hist.polledEntry
          /\ ~hist.polledFinal
          /\ poll = PollIdle
          /\ ~hist.planned
          /\ hist.planCalls = 0
          /\ ~hist.uploaded
          /\ tasks = <<>>
          /\ pc = "Failed" =>
                /\ ret.returned
                /\ InstanceOfError(ret.err)
                /\ ret.txHash = ""
                /\ (~gas.retReceipt.present \/ gas.retErr.tag # "null") =>
                       gas.retErr.msg \subseteq ret.err.msg
    /\ (pc = "Failed" /\ hist.ledgerCalls > 0 /\ gas.pc = "idle") =>
          /\ InstanceOfError(ret.err)
          /\ ~hist.polledEntry
          /\ ~hist.planned
          /\ ~hist.uploaded

C22_Witness ==
    /\ gas.pc = "returned"
    /\ gas.retReceipt.present
    /\ gas.retErr.tag = "null"
    /\ ~gas.retReceipt.hasSubmitLog
    /\ pc = "Failed"
    /\ ret.returned
    /\ Len(gas.sent) = 2

\* C23: for any non-negative maxEphemeralMessages, after any sequence of
\* addMessage and clearEphemeralMessages calls the number of stored messages
\* never exceeds maxEphemeralMessages, and the stored messages are the most
\* recently added ones in insertion order.
C23_EphemeralHistoryIsBounded ==
    LET n == Len(memory.added)
        lastAdded == IF n <= memory.max THEN memory.added
                     ELSE SubSeq(memory.added, n - memory.max + 1, n)
    IN  /\ Len(memory.messages) <= memory.max
        /\ memory.messages = lastAdded

\* C24: against a store that returns the last value written for a key,
\* remember(key, v) followed by recall(key) returns v for every JSON value v,
\* and forget(key) followed by recall(key) returns null until the key is
\* remembered again.
C24_RememberRecallRoundTrips ==
    memory.last.op = "recall" =>
        LET w == memory.written[memory.last.key]
        IN  /\ w \in JsonValues => memory.last.out = w
            /\ w = Js("forgotten", "") => memory.last.out = Js("null", "null")

C27_InterleavingLosesNothing ==
    hist.planned =>
        LET range == SegmentRange(hist.planInfo.startEntryIndex, hist.planInfo.size)
            lists == CollectNodeTasks(shardConfigs, hist.planFinalized, 1, range[1],
                                      range[2], opts.taskSize, hist.planInfo.seq)
            OfNode(n) == SelectSeq(tasks, LAMBDA task : task.clientIndex = n)
        IN  /\ \A k \in 1..Len(lists) :
                  LET mine == OfNode(lists[k][1].clientIndex)
                  IN  /\ Len(mine) = Len(lists[k])
                      /\ \A j \in 1..Len(mine) :
                             mine[j].segIndex = lists[k][j].segIndex
            /\ \A i \in 1..Len(tasks) :
                  \E k \in 1..Len(lists) :
                      lists[k][1].clientIndex = tasks[i].clientIndex

\* C28: waitForLogEntry is live exactly when the nodes converge: if from
\* some point on every node reports the entry (finalized when required) the
\* call eventually returns; if some node never reports it, the call never
\* returns, reports no error, and polls round after round without end.
C28_WaitIsLiveWhenNodesConverge ==
    LET Reports(n) == /\ nodeLog[n][NewSeq] # "absent"
                      /\ poll.fin => nodeLog[n][NewSeq] = "finalized"
    IN  /\ (<>[](\A n \in Nodes : Reports(n))) => <>poll.returned
        /\ \A n \in 1..MaxNodes :
              ([](n \in Nodes /\ ~Reports(n))) =>
                  /\ [](~poll.returned /\ ~ret.returned)
                  /\ []<>(poll.tick = 0)
                  /\ []<>(poll.tick = 1)

\* The wait returned after a round that failed.
C28_Witness ==
    /\ poll.returned
    /\ poll.tick = 1
    /\ gas.retReceipt.present
    /\ Len(shardConfigs) = MaxNodes

\* C29: uploadFile inspects the results only after every task has
\* terminated (no task is running once the upload phase is left), and when
\* several tasks fail the error returned is that of the failing task with
\* the smallest position in the task list.
C29_FirstFailingTaskByPosition ==
    (hist.planned /\ pc # "UploadingSegments" /\ Len(tasks) > 0) =>
        LET failing == {i \in 1..Len(tasks) : TaskFailed(tasks[i])}
            first == CHOOSE i \in failing : \A j \in failing : i <= j
        IN  /\ AllTasksDone
            /\ (failing # {} /\ ret.returned /\ ret.err.tag # "null") =>
                   ret.err = tasks[first].result

\* C30: two distinct tasks of the list returned by splitTasks that target
\* the same node, and two tasks that target nodes with different shard ids
\* of the same numShard, read and upload disjoint sets of segment indices.
C30_TasksAddressDisjointSegments ==
    hist.planned =>
        \A i, j \in 1..Len(tasks) :
            LET ci == shardConfigs[tasks[i].clientIndex]
                cj == shardConfigs[tasks[j].clientIndex]
            IN  (/\ i # j
                 /\ \/ tasks[i].clientIndex = tasks[j].clientIndex
                    \/ ci.numShard = cj.numShard /\ ci.shardId # cj.shardId)
                => /\ TaskSegments(tasks[i]) \cap TaskSegments(tasks[j]) = {}
                   /\ SegmentSet(tasks[i].segments) \cap SegmentSet(tasks[j].segments) = {}

\* Two shards with two tasks each, all segments read and uploaded.
C30_Witness ==
    /\ hist.planned
    /\ Len(tasks) = 4
    /\ shardConfigs = Sharded(2)
    /\ \A i \in 1..Len(tasks) :
          tasks[i].pc = "done" /\ tasks[i].segments # <<>>
    /\ \E i, j \in 1..Len(tasks) :
          i # j /\ tasks[i].clientIndex = tasks[j].clientIndex

\* ------------------------------------------------------------------------
\* The backoff of uploadTask
\* ------------------------------------------------------------------------
\* C31: the j-th sleep of a task lasts Interval * j seconds (3 * j when
\* Interval is unset), so the sleeps grow strictly when Interval > 0; a sleep
\* follows only a retryable answer, and no sleep follows the last allowed
\* attempt, an 'already uploaded' answer or a fatal answer.
C31_BackoffIsLinear ==
    LET t == tasks[1]
        R == MaxRetriesOf(retryOpts)
        n == Len(t.sleeps)
        interval == IF retryOpts.defined /\ retryOpts.Interval # Unset
                    THEN retryOpts.Interval ELSE 3
    IN  /\ \A j \in 1..n : t.sleeps[j] = interval * j
        /\ interval > 0 => \A j \in 1..(n - 1) : t.sleeps[j] < t.sleeps[j + 1]
        /\ R >= 1 => n <= R - 1
        /\ t.pc = "sleep" => AnswerRetryable(t.lastResp) /\ n = t.calls
        /\ (t.pc = "done" /\ t.calls > 0) => n = t.calls - 1

\* Two retryable answers, waits of 2 and 4 seconds, then the third and last
\* allowed attempt fails without a further wait.
C31_Witness ==
    /\ retryOpts.defined /\ retryOpts.Interval = 2
    /\ MaxRetriesOf(retryOpts) = 3
    /\ tasks[1].pc = "done"
    /\ tasks[1].calls = 3
    /\ tasks[1].sleeps = <<2, 4>>
    /\ AnswerRetryable(tasks[1].lastResp)

\* C31 as claimed: the sleeps grow strictly from one to the next for every
\* Interval.
C31_BackoffIsLinearAndIncreasing ==
    LET t == tasks[1]
        R == MaxRetriesOf(retryOpts)
        n == Len(t.sleeps)
    IN  /\ \A j \in 1..n : t.sleeps[j] = IntervalOf(retryOpts) * j
        /\ \A j \in 1..(n - 1) : t.sleeps[j] < t.sleeps[j + 1]
        /\ R >= 1 => n <= R - 1
        /\ t.pc = "sleep" => AnswerRetryable(t.lastResp) /\ n = t.calls
        /\ (t.pc = "done" /\ t.calls > 0) => n = t.calls - 1

\* ------------------------------------------------------------------------
\* The batch of uploadTask
\* ------------------------------------------------------------------------
\* C32: once a task has read a readable file, its batch is the segments
\* segIndex + k * numShard (0 <= k < taskSize) that lie inside the file, in
\* increasing order and each once; every upload call of the task, the first
\* and each retry, carries that whole batch to the task's node with the
\* task's txSeq, one call per attempt.
C32_BatchIsTheTaskSegmentsAndRetriesResendIt ==
    LET t == tasks[1]
        inFile == {k \in 0..(t.taskSize - 1) :
                      t.segIndex + k * t.numShard < NumSegments(file)}
        batch == [j \in 1..Cardinality(inFile) |-> t.segIndex + (j - 1) * t.numShard]
    IN  (file.readFail = "none" /\ t.pc # "read") =>
           /\ t.segments = batch
           /\ \A j \in 1..(Len(batch) - 1) : batch[j] < batch[j + 1]
           /\ Len(t.sent) = t.calls
           /\ t.calls \in {t.attempt, t.attempt + 1}
           /\ \A c \in 1..Len(t.sent) :
                 t.sent[c] = [node |-> t.clientIndex, segments |-> batch,
                              txSeq |-> t.txSeq]

C32_Witness ==
    /\ NumSegments(file) = 3
    /\ tasks[1].segIndex = 0 /\ tasks[1].numShard = 2 /\ tasks[1].taskSize = 2
    /\ tasks[1].segments = <<0, 2>>
    /\ tasks[1].calls = 2
    /\ tasks[1].sent[2] = [node |-> tasks[1].clientIndex, segments |-> <<0, 2>>,
                           txSeq |-> NewSeq]

\* ------------------------------------------------------------------------
\* A failed read in uploadTask
\* ------------------------------------------------------------------------
\* C33: when the read of one of the task's segments fails, with or without
\* an error value, the task ends with an error without one upload call.
C33_FailedReadFailsTheTask ==
    LET t == tasks[1]
        wanted == {t.segIndex + k * t.numShard : k \in 0..(t.taskSize - 1)}
    IN  (file.readFail # "none" /\ file.failAt \in wanted /\
         file.failAt < NumSegments(file) /\ t.pc # "read") =>
           /\ t.calls = 0
           /\ t.pc = "done"
           /\ InstanceOfError(t.result)

\* ------------------------------------------------------------------------
\* findExistingFileInfo against nodes that know the file, do not, or throw
\* ------------------------------------------------------------------------
InitLookup ==
    InitWith({File(DEFAULT_SEGMENT_SIZE, 0)}, {Opts(s, 1, 1) : s \in BOOLEAN},
             {UndefinedRetryOpts}, {0}, {Replicated(n) : n \in 1..MaxNodes})

NextLookup ==
    \/ BuildTree
    \/ \E throwing \in SUBSET Nodes : FindExisting(throwing)
    \/ \E n \in Nodes : NodeSync(n, OldSeq)

SpecLookup == InitLookup /\ [][NextLookup]_vars

\* C34: the lookup asks the nodes in configuration order from the first one
\* and stops at the first node that answers with an entry, whose entry it
\* returns; nodes that throw or answer null are passed over; when no node
\* answers with an entry it has asked every node and returns null; and the
\* upload goes on to the next phase without returning.
C34_LookupReturnsFirstAnswerAndNeverFails ==
    [][(pc = "CheckingExistingFile" /\ pc' # pc) =>
          LET queried == hist'.lookup.queried
              hits == {n \in Nodes : /\ n \notin hist'.lookup.throwing
                                     /\ EntryByRoot(n).present}
              first == CHOOSE n \in hits : \A m \in hits : n <= m
          IN  /\ queried = [j \in 1..Len(queried) |-> j]
              /\ hits # {} => info' = EntryByRoot(first) /\ Len(queried) = first
              /\ hits = {} => info' = NoInfo /\ Len(queried) = Len(shardConfigs)
              /\ pc' \in {"SubmittingTransaction", "PlanningTasks"}
              /\ ~ret'.returned]_vars

\* The first node throws although it knows the file, the second does not
\* know it, the third answers.
C34_Witness ==
    /\ hist.lookedUp
    /\ Len(shardConfigs) = 3
    /\ hist.lookup.throwing = {1}
    /\ hist.lookup.queried = <<1, 2, 3>>
    /\ nodeLog[2][OldSeq] = "absent"
    /\ info.present
    /\ pc = "PlanningTasks"

\* ------------------------------------------------------------------------
\* One submission with waitForReceipt taken turn by turn
\* ------------------------------------------------------------------------
InitReceipt ==
    /\ file = File(DEFAULT_SEGMENT_SIZE, 0)
    /\ opts = Opts(FALSE, 1, 1)
    /\ retryOpts \in {UndefinedRetryOpts} \cup
                     {[RetryOpts(Unset, m, iv) EXCEPT !.Retries = r] :
                         m \in {0, SuggestedGasPrice + 2}, iv \in {Unset, 0, 2},
                         r \in {Unset} \cup 0..MaxReceiptRetries}
    /\ gasPrice = SuggestedGasPrice
    /\ shardConfigs = Sharded(1)
    /\ nodeLog = [n \in Nodes |-> [q \in Seqs |-> "absent"]]
    /\ nodeSegs = [n \in Nodes |-> {}]
    /\ pc = "SubmittingTransaction"
    /\ info = NoInfo
    /\ receipt = NoReceipt
    /\ ret = NotReturned
    /\ tasks = <<>>
    /\ poll = PollIdle
    /\ gas = GasStart(gasPrice, retryOpts)
    /\ hist = [HistInit EXCEPT !.treeBuilt = TRUE, !.ledgerCalls = 1,
                               !.callerOpts = retryOpts]
    /\ calc = NoCall
    /\ IdleComponents

NextReceipt ==
    \/ BeginWait
    \/ \E answer \in ReceiptAnswers : ReceiptPoll(answer)
    \/ GasAttempt(TxNullOutcome)
    \/ GasAttempt(ThrowOutcome(NewError({})))
    \/ GasExit

SpecReceipt == InitReceipt /\ [][NextReceipt]_vars

\* C35: one wait calls getTransactionReceipt at most Retries times (10 when
\* the caller left Retries unset or 0); it hands back a receipt only on an
\* answer of status 1, and null only after all its tries; an attempt that
\* obtained a receipt is the last attempt of the submission, which returns
\* that receipt and no error.
C35_ReceiptWaitIsBoundedAndKeepsOneReceipt ==
    LET caller == hist.callerOpts
        R == IF ~caller.defined \/ caller.Retries \in {Unset, 0} THEN 10
             ELSE caller.Retries
        n == Len(gas.outcomes)
    IN  /\ gas.wait.calls <= R
        /\ gas.pc = "waiting" => gas.wait.calls < R
        /\ \A k \in 1..n :
              gas.outcomes[k].kind = "receipt" =>
                 /\ k = n
                 /\ gas.pc = "returned"
                 /\ gas.wait.last = "status 1"
                 /\ gas.retReceipt.present
                 /\ gas.retErr = NoValue
        /\ gas.retReceipt.present => n >= 1 /\ gas.outcomes[n].kind = "receipt"
        /\ (gas.pc # "waiting" /\ n >= 1 /\ gas.outcomes[n] = ReceiptTimeoutOutcome) =>
              /\ gas.wait.calls = R
              /\ gas.wait.last \in {"null", "status 0"}
              /\ ~gas.retReceipt.present

\* The first attempt uses up the ten default tries, the second obtains the
\* receipt on its second try.
C35_Witness ==
    /\ hist.callerOpts.defined
    /\ hist.callerOpts.Retries = 0
    /\ gas.pc = "returned"
    /\ gas.sent = <<SuggestedGasPrice, NextGasPrice(SuggestedGasPrice)>>
    /\ gas.outcomes = <<ReceiptTimeoutOutcome, ReceiptOutcome>>
    /\ gas.wait.calls = 2
    /\ gas.retReceipt.present

\* C36: when txWithGasAdjustment has returned, exactly one of the receipt and
\* the error is non-null, and at least one attempt was made.
C36_GasResultIsWellFormed ==
    gas.pc = "returned" =>
       /\ gas.retReceipt.present # (gas.retErr.tag # "null")
       /\ Len(gas.sent) >= 1

\* ------------------------------------------------------------------------
\* splitTasks called on a log entry at any start entry index
\* ------------------------------------------------------------------------
\* The entries start at any multiple of half a segment.
InitAnyEntry ==
    /\ file \in {File(sz, half * (DEFAULT_SEGMENT_MAX_CHUNKS \div 2)) :
                    sz \in FileSizes(2), half \in 0..(2 * MaxStartSegment)}
    /\ opts \in {Opts(FALSE, t, 1) : t \in 1..MaxTaskSize}
    /\ retryOpts = UndefinedRetryOpts
    /\ gasPrice = 0
    /\ shardConfigs \in {Sharded(1), Sharded(2)}
    /\ nodeLog = [n \in 1..Len(shardConfigs) |->
                     [q \in Seqs |-> IF q = OldSeq THEN "absent" ELSE "pending"]]
    /\ nodeSegs = [n \in 1..Len(shardConfigs) |-> {}]
    /\ pc = "PlanningTasks"
    /\ info = EntryBySeq(1, NewSeq)
    /\ receipt = [present |-> TRUE, hasSubmitLog |-> TRUE]
    /\ ret = NotReturned
    /\ tasks = <<>>
    /\ poll = PollIdle
    /\ gas = GasIdle
    /\ hist = [HistInit EXCEPT !.treeBuilt = TRUE, !.ledgerCalls = 1, !.polledEntry = TRUE]
    /\ calc = NoCall
    /\ IdleComponents

SpecAnyEntry == InitAnyEntry /\ [][NextPlan]_vars

\* C37: every planned task starts at a segment inside the file, and every
\* upload call carries at least one segment.
C37_NoTaskSendsAnEmptyBatch ==
    \A i \in 1..Len(tasks) :
       /\ tasks[i].segIndex < NumSegments(file)
       /\ \A c \in 1..Len(tasks[i].sent) : tasks[i].sent[c].segments # <<>>

\* ------------------------------------------------------------------------
\* The caller's retry options
\* ------------------------------------------------------------------------
\* C38: the retry options keep the Retries and Interval the caller passed to
\* uploadFile, and every backoff sleep of a task is a multiple of the
\* caller's Interval, or of 3 seconds when the caller left it unset.
C38_SubmissionLeavesRetryOptsUnchanged ==
    /\ retryOpts.Retries = hist.callerOpts.Retries
    /\ retryOpts.Interval = hist.callerOpts.Interval
    /\ \A i \in 1..Len(tasks) :
          \A j \in 1..Len(tasks[i].sleeps) :
             tasks[i].sleeps[j] =
                (IF hist.callerOpts.defined /\ hist.callerOpts.Interval # Unset
                 THEN hist.callerOpts.Interval ELSE 3) * j

\* ------------------------------------------------------------------------
\* An agent in conversation; the window holds 1..MaxEphemeral exchanges
\* ------------------------------------------------------------------------
InitChat ==
    /\ UploaderIdle
    /\ agent = NoAgent
    /\ factory = NoFactory
    /\ memory \in {[NoMemory EXCEPT !.max = 2 * m] : m \in 1..MaxEphemeral}

NextChat ==
    \/ \E ok \in BOOLEAN : Ask(ok)
    \/ \E ok \in BOOLEAN : ChatWithContext(ok)
    \/ \E ok \in BOOLEAN : StreamChat(ok)

SpecChat == InitChat /\ [][NextChat]_vars

\* C39: a chat call whose request throws leaves the ephemeral messages as
\* they were, and after every call each user message of the history is
\* followed by an assistant message and each assistant message follows a
\* user message.
C39_FailedChatLeavesHistoryUnchanged ==
    [][LET after == memory'.messages
           role(k) == memory'.roles[after[k]]
       IN  /\ (memory'.last.out = Js("error", "failed") /\ memory' # memory) =>
                 memory'.messages = memory.messages
           /\ \A k \in 1..Len(after) :
                 /\ role(k) = "user" => k < Len(after) /\ role(k + 1) = "assistant"
                 /\ role(k) = "assistant" => k > 1 /\ role(k - 1) = "user"]_vars

====
